---- MODULE Spec2Model ----
(***************************************************************************)
(* AevumDB storage core: the Db controller (src/src/storage/db.cpp) on top *)
(* of the append-only log Engine (src/src/storage/engine.cpp).             *)
(*                                                                         *)
(* Modelling conventions                                                   *)
(*  - A JSON value is a tagged record [t, v]; a JSON object is a function  *)
(*    from key strings to JSON values (its domain is the set of keys).     *)
(*    A JSON number is carried as its decimal literal, so that the         *)
(*    stringification used by the secondary index is a real conversion.    *)
(*  - A log file is the sequence of the payloads of its frames; a payload  *)
(*    is the JSON value that cJSON_PrintUnformatted / cJSON_Parse carry.   *)
(*  - A cJSON* pointing at a document of an in-memory array is the         *)
(*    position of that document in the array (0 = pointer to freed memory).*)
(*  - std::unordered_map is a function whose DOMAIN is the set of keys     *)
(*    present; operator[] on a missing key inserts it.                     *)
(***************************************************************************)
EXTENDS Integers, Sequences, FiniteSets, TLC

\* ------------------------------------------------------------------ bounds
MaxDocs == 2      \* documents held by one in-memory collection
MaxLog == 3       \* frames held by one collection log
MaxUuid == 2      \* identifiers the generator can hand out per collection
NThreads == 2     \* client threads calling into the Db concurrently

\* ------------------------------------------------------- program constants
CompactMinLive == 100     \* load_all: temp_map.size() > 100
CompactRatio == 2         \* load_all: logs.size() > temp_map.size() * 2
Djb2Init == 5381          \* hash_key: unsigned long hash = 5381

\* ------------------------------------------------------------- JSON values
JStr(s) == [t |-> "s", v |-> s]
JNum(lit) == [t |-> "n", v |-> lit]
JTrue == [t |-> "b", v |-> "true"]
NULL == [t |-> "null", v |-> ""]
EmptyObj == <<>>

cJSON_GetObjectItem(obj, key) == IF key \in DOMAIN obj THEN obj[key] ELSE NULL
cJSON_HasObjectItem(obj, key) == key \in DOMAIN obj
cJSON_IsString(x) == x.t = "s"
cJSON_IsNumber(x) == x.t = "n"
cJSON_IsTrue(x) == x.t = "b" /\ x.v = "true"
cJSON_GetArraySize(obj) == Cardinality(DOMAIN obj)

\* std::to_string(double) prints "%f": six digits after the decimal point.
\* The numbers of the model are integral, so the literal is followed by
\* ".000000".
std_to_string(x) == x.v \o ".000000"

\* ------------------------------------------------------------ map helpers
Has(m, k) == k \in DOMAIN m
Put(m, k, val) == [y \in DOMAIN m \cup {k} |-> IF y = k THEN val ELSE m[y]]
Del(m, k) == IF DOMAIN m \ {k} = {} THEN <<>> ELSE [y \in DOMAIN m \ {k} |-> m[y]]
Get(m, k, dflt) == IF k \in DOMAIN m THEN m[k] ELSE dflt

RemoveAt(sq, p) == SubSeq(sq, 1, p - 1) \o SubSeq(sq, p + 1, Len(sq))
SeqRange(sq) == {sq[i] : i \in 1..Len(sq)}

RECURSIVE PermsOf(_)
PermsOf(S) == IF S = {} THEN {<<>>}
              ELSE UNION {{<<x>> \o p : p \in PermsOf(S \ {x})} : x \in S}

\* ------------------------------------------------------- input alphabets
Colls == {"c"}
Reserved == {"_auth", "_schemas", "_indexes"}
Ids == {"a"}
Fields == {"f", "g"}
\* a string and a number whose index keys coincide
ValStr == JStr("1.000000")
ValNum == JNum("1")
Vals == {ValStr, ValNum}
Uuid(i) == "u" \o ToString(i)
UuidPool == {Uuid(i) : i \in 1..MaxUuid}

InDocs == {[_id |-> JStr(i), f |-> x] : i \in Ids, x \in Vals}
          \cup {[f |-> ValStr]}

Queries == {[_id |-> JStr(i), f |-> ValNum] : i \in Ids}
           \cup {[_id |-> JStr(i)] : i \in Ids}
           \cup {[f |-> x] : x \in Vals}
           \cup {EmptyObj}

Updates == {[f |-> x] : x \in Vals}

\* A schema as the predicate engine reads it: the required field list and
\* the per-field type constraint (pairs <<field, type tag>>), plus the
\* "collection" member when the caller put one in the schema document.
SchemaOf(coll, req, ty) == [collection |-> coll, required |-> req, types |-> ty]
InSchemas == {SchemaOf(NULL, {"f"}, {<<"f", "s">>})}

\* ---------------------------------------------------------------- state
VARIABLES
    memory_store,     \* collection name -> array of documents
    id_indexes,       \* collection -> _id -> document pointer
    schemas,          \* collection -> schema
    custom_indexes,   \* collection -> field -> value key -> document pointers
    indexed_fields,   \* collection -> set of registered fields
    auth_cache,       \* key hash -> role
    disk,             \* the data directory: path -> frames of the file
    ret,              \* the call that returned last and its result
    rw_lock,          \* the shared_mutex: exclusive owner and shared owners
    pc,               \* per client thread: the Db call in progress
    cpc,              \* the Engine::compact call in progress
    tasks_,           \* Scheduler: the queue of submitted tasks
    stop_,            \* Scheduler: the shutdown flag
    queue_mutex_,     \* Scheduler: the thread holding the queue mutex, or Nobody
    condition_,       \* Scheduler: the workers blocked in condition_.wait
    workers_,         \* Scheduler: worker -> its position in the worker loop
    task,             \* Scheduler: worker -> the task it moved out of the queue
    producer,         \* the position of the caller inside Scheduler::enqueue
    submitted,        \* how many tasks enqueue has put into the queue so far
    destructor,       \* the position of the thread inside ~Scheduler
    joined,           \* how many workers the destructor has joined
    taken,            \* the tasks in the order the workers popped them
    ran,              \* task -> how many times a worker has run it
    running_,         \* Server: the flag the accept loop and the sessions test
    server_fd_,       \* Server: the listener socket
    client_sockets_,  \* Server: the registry of the client sockets
    sockets,          \* client socket -> what was sent to it, how often it was closed
    stopper           \* the position of the thread inside Server::stop

dbvars == <<memory_store, id_indexes, schemas, custom_indexes, indexed_fields,
            auth_cache, disk>>
\* the structures the RW-lock guards
guarded == <<memory_store, id_indexes, schemas, custom_indexes, indexed_fields,
             auth_cache>>
\* the server over the thread pool
netvars == <<running_, server_fd_, client_sockets_, sockets, stopper>>
\* the thread pool and the server, which no Db call touches
schedvars == <<tasks_, stop_, queue_mutex_, condition_, workers_, task,
               producer, submitted, destructor, joined, taken, ran,
               running_, server_fd_, client_sockets_, sockets, stopper>>
vars == <<memory_store, id_indexes, schemas, custom_indexes, indexed_fields,
          auth_cache, disk, ret, rw_lock, pc, cpc, tasks_, stop_, queue_mutex_,
          condition_, workers_, task, producer, submitted, destructor, joined,
          taken, ran, running_, server_fd_, client_sockets_, sockets, stopper>>

\* The Db object and its directory as one value, so that the methods below
\* can call each other.
Cur == [memory_store |-> memory_store, id_indexes |-> id_indexes,
        schemas |-> schemas, custom_indexes |-> custom_indexes,
        indexed_fields |-> indexed_fields, auth_cache |-> auth_cache,
        disk |-> disk]

Commit(s) == /\ memory_store' = s.memory_store
             /\ id_indexes' = s.id_indexes
             /\ schemas' = s.schemas
             /\ custom_indexes' = s.custom_indexes
             /\ indexed_fields' = s.indexed_fields
             /\ auth_cache' = s.auth_cache
             /\ disk' = s.disk

\* A Db whose constructor has not run yet, on directory d.
Blank(d) == [memory_store |-> <<>>, id_indexes |-> <<>>, schemas |-> <<>>,
             custom_indexes |-> <<>>, indexed_fields |-> <<>>,
             auth_cache |-> <<>>, disk |-> d]

\* ------------------------------------------------------ predicate engine
\* equality-by-key: every key of the query is present in the document with
\* the same JSON value.
Matches(doc, query) ==
    \A k \in DOMAIN query : k \in DOMAIN doc /\ doc[k] = query[k]

RECURSIVE Filter(_, _)
Filter(arr, query) ==
    IF arr = <<>> THEN <<>>
    ELSE (IF Matches(Head(arr), query) THEN <<Head(arr)>> ELSE <<>>)
         \o Filter(Tail(arr), query)

Project(doc, projection) ==
    IF DOMAIN projection = {} THEN doc
    ELSE LET keep == DOMAIN doc \cap (DOMAIN projection \cup {"_id"})
         IN IF keep = {} THEN <<>> ELSE [k \in keep |-> doc[k]]

Slice(sq, limit, skip) ==
    LET last == IF limit > 0 /\ skip + limit < Len(sq) THEN skip + limit ELSE Len(sq)
    IN SubSeq(sq, skip + 1, last)

ProjectAll(sq, projection) == [i \in 1..Len(sq) |-> Project(sq[i], projection)]

call_find(arr, query, projection, limit, skip) ==
    LET hit == Slice(Filter(arr, query), limit, skip)
    IN IF hit = <<>> THEN <<>> ELSE ProjectAll(hit, projection)

call_count(arr, query) == Len(Filter(arr, query))

\* direct field assignment; the _id of the document is kept.
ApplyUpdate(doc, update) ==
    LET ks == DOMAIN update \ {"_id"}
    IN IF DOMAIN doc \cup ks = {} THEN <<>>
       ELSE [k \in DOMAIN doc \cup ks |-> IF k \in ks THEN update[k] ELSE doc[k]]

call_update(arr, query, update) ==
    IF arr = <<>> THEN <<>>
    ELSE [i \in 1..Len(arr) |->
            IF Matches(arr[i], query) THEN ApplyUpdate(arr[i], update) ELSE arr[i]]

call_validate(doc, schema) ==
    /\ \A k \in schema.required : k \in DOMAIN doc
    /\ \A c \in schema.types : c[1] \in DOMAIN doc => doc[c[1]].t = c[2]

\* ---------------------------------------------------------------- Engine
\* The directory is a function from paths to file contents.  A path is the
\* pair <<stem, extension>>; a file is the sequence of its frames, a frame
\* being whole (header and payload on disk) or cut short.
get_path(collection) == <<collection, "aev">>
\* compact writing into <name>.aev itself
temp_path_in_place(collection) == <<collection, "aev">>
temp_path(collection) == <<collection, "aev.tmp">>
Frame(payload) == [payload |-> payload, complete |-> TRUE]
TornFrame(payload) == [payload |-> payload, complete |-> FALSE]
FileAt(d, path) == IF Has(d, path) THEN d[path] ELSE <<>>

\* the reader stops at the first frame whose header or payload is cut short
RECURSIVE ReadFrames(_)
ReadFrames(file) ==
    IF file = <<>> \/ ~Head(file).complete THEN <<>>
    ELSE <<Head(file).payload>> \o ReadFrames(Tail(file))

load_log(d, collection) == ReadFrames(FileAt(d, get_path(collection)))

\* the stems of the *.aev files, as a set (the directory iterator hands them
\* out in an order of its own)
CollectionFiles(d) == {q[1] : q \in {r \in DOMAIN d : r[2] = "aev"}}

\* append: one more frame at the end of <name>.aev (the file is created
\* when missing).
Engine_append(d, collection, raw_json) ==
    Put(d, get_path(collection), Append(FileAt(d, get_path(collection)), Frame(raw_json)))

Frames(docs) == IF docs = <<>> THEN <<>> ELSE [i \in 1..Len(docs) |-> Frame(docs[i])]

\* compact opening its file for append instead of truncation
Engine_compact_appending(d, collection, active_docs) ==
    Put(d, get_path(collection), FileAt(d, get_path(collection)) \o Frames(active_docs))

\* compact, start to end without failure: the temporary file receives one
\* frame per active document and is renamed over <name>.aev.
Engine_compact(d, collection, active_docs) ==
    Put(Del(d, temp_path(collection)), get_path(collection), Frames(active_docs))

\* --- the same files byte by byte. A frame is the four bytes of its length,
\* least significant first, and the bytes of its payload; a frame cut short
\* is any proper prefix of that. A payload is here the raw string of bytes.
HeaderBytes(n) == <<n % 256, (n \div 256) % 256, (n \div 65536) % 256, n \div 16777216>>
FrameBytes(raw) == HeaderBytes(Len(raw)) \o raw

\* append on the bytes of the file: the header, then the payload
append_bytes(bytes, raw_json) == (bytes \o HeaderBytes(Len(raw_json))) \o raw_json

\* payload_length as the four bytes give it
PayloadLength(h) == h[1] + 256 * h[2] + 65536 * h[3] + 16777216 * h[4]

\* load_log reading without the test on the count of payload bytes read
RECURSIVE load_log_bytes_unchecked(_)
load_log_bytes_unchecked(bytes) ==
    IF bytes = <<>> THEN <<>>
    ELSE IF Len(bytes) < 4 THEN <<>>
    ELSE LET payload_length == PayloadLength(SubSeq(bytes, 1, 4))
             gcount == IF Len(bytes) - 4 < payload_length THEN Len(bytes) - 4
                       ELSE payload_length
             buffer == SubSeq(bytes, 5, 4 + gcount)
         IN <<buffer>> \o load_log_bytes_unchecked(SubSeq(bytes, 5 + gcount, Len(bytes)))

\* the loop of load_log: peek for EOF, read the header, stop when fewer than
\* four bytes came, read the payload, stop when fewer bytes came than the
\* header announced
RECURSIVE load_log_bytes(_)
load_log_bytes(bytes) ==
    IF bytes = <<>> THEN <<>>
    ELSE IF Len(bytes) < 4 THEN <<>>
    ELSE LET payload_length == PayloadLength(SubSeq(bytes, 1, 4))
             gcount == IF Len(bytes) - 4 < payload_length THEN Len(bytes) - 4
                       ELSE payload_length
             buffer == SubSeq(bytes, 5, 4 + gcount)
         IN IF gcount = payload_length
            THEN <<buffer>> \o load_log_bytes(SubSeq(bytes, 5 + gcount, Len(bytes)))
            ELSE <<>>

\* the byte strings a file of frames may be on disk
RECURSIVE BytesOf(_)
BytesOf(file) ==
    IF file = <<>> THEN {<<>>}
    ELSE LET whole == FrameBytes(Head(file).payload)
             first == IF Head(file).complete THEN {whole}
                      ELSE {SubSeq(whole, 1, k) : k \in 0..(Len(whole) - 1)}
         IN {a \o b : a \in first, b \in BytesOf(Tail(file))}

\* ------------------------------------------------------------ hash_key
\* unsigned long is 64 bits wide: four limbs of 16 bits, least significant
\* first, so that no intermediate value exceeds 32 bits.
Limb == 65536
Zero64 == <<0, 0, 0, 0>>

LimbAdd(a, b) ==
    LET t1 == a[1] + b[1]
        t2 == a[2] + b[2] + t1 \div Limb
        t3 == a[3] + b[3] + t2 \div Limb
        t4 == a[4] + b[4] + t3 \div Limb
    IN <<t1 % Limb, t2 % Limb, t3 % Limb, t4 % Limb>>

LimbMul(a, k) ==
    LET t1 == a[1] * k
        t2 == a[2] * k + t1 \div Limb
        t3 == a[3] * k + t2 \div Limb
        t4 == a[4] * k + t3 \div Limb
    IN <<t1 % Limb, t2 % Limb, t3 % Limb, t4 % Limb>>

\* a byte read through plain char (signed on the x86-64 build) and
\* converted to unsigned long
CharToULong(b) == IF b < 128 THEN <<b, 0, 0, 0>>
                  ELSE <<Limb - 256 + b, Limb - 1, Limb - 1, Limb - 1>>

\* (hash << 5) + hash is hash * 33 modulo 2^64
RECURSIVE Djb2(_, _)
Djb2(hash, key) ==
    IF key = <<>> THEN hash
    ELSE Djb2(LimbAdd(LimbMul(hash, 33), CharToULong(Head(key))), Tail(key))

\* std::to_string: the decimal digits, four at a time
DivE4(a) ==
    LET c4 == a[4]
        c3 == (c4 % 10000) * Limb + a[3]
        c2 == (c3 % 10000) * Limb + a[2]
        c1 == (c2 % 10000) * Limb + a[1]
    IN [q |-> <<c1 \div 10000, c2 \div 10000, c3 \div 10000, c4 \div 10000>>,
        r |-> c1 % 10000]

Pad4(n) == IF n < 10 THEN "000" \o ToString(n)
           ELSE IF n < 100 THEN "00" \o ToString(n)
           ELSE IF n < 1000 THEN "0" \o ToString(n)
           ELSE ToString(n)

RECURSIVE Digits(_)
Digits(a) == LET d == DivE4(a)
             IN IF d.q = Zero64 THEN ToString(d.r) ELSE Digits(d.q) \o Pad4(d.r)

ULongToString(a) == Digits(a)

hash_key(key) == ULongToString(Djb2(<<Djb2Init, 0, 0, 0>>, key))

KeyRoot == <<114, 111, 111, 116>>     \* "root"

\* -------------------------------------------------------------- IdGenerator
\* generate() draws 122 random bits; two draws are taken to differ, so the
\* identifier handed out is one that the collection has not seen.
IdsOfDocs(sq) == {sq[i]["_id"].v : i \in {j \in 1..Len(sq) : "_id" \in DOMAIN sq[j]}}
UsedIds(s, coll) == IdsOfDocs(Get(s.memory_store, coll, <<>>))
                    \cup IdsOfDocs(load_log(s.disk, coll))
FreshIds(s, coll) == {i \in 1..MaxUuid : Uuid(i) \notin UsedIds(s, coll)}
generate(s, coll) == Uuid(CHOOSE i \in FreshIds(s, coll) : \A j \in FreshIds(s, coll) : i <= j)

\* ---------------------------------------------------------------------- Db
Result(s, rv) == [rv |-> rv, st |-> s]

\* the document a pointer refers to
Freed == [_freed |-> NULL]
Deref(arr, p) == IF p \in 1..Len(arr) THEN arr[p] ELSE Freed

get_collection(s, name) ==
    IF ~Has(s.memory_store, name)
    THEN [s EXCEPT !.memory_store = Put(@, name, <<>>),
                   !.id_indexes = Put(@, name, <<>>)]
    ELSE s

FirstIndexOf(vec, p) == CHOOSE i \in 1..Len(vec) : vec[i] = p /\ \A j \in 1..(i - 1) : vec[j] # p

\* one iteration of the loop of update_custom_index, for one field
uci_field(ci, coll, field, doc, p, add) ==
    LET val == cJSON_GetObjectItem(doc, field)
    IN IF ~(cJSON_IsString(val) \/ cJSON_IsNumber(val)) THEN ci
       ELSE LET key_val == IF cJSON_IsString(val) THEN val.v ELSE std_to_string(val)
                cmap == Get(ci, coll, <<>>)
                fmap == Get(cmap, field, <<>>)
                vec == Get(fmap, key_val, <<>>)
                fmap2 == IF add THEN Put(fmap, key_val, Append(vec, p))
                         ELSE IF p \in SeqRange(vec)
                              THEN LET v2 == RemoveAt(vec, FirstIndexOf(vec, p))
                                   IN IF v2 = <<>> THEN Del(fmap, key_val)
                                      ELSE Put(fmap, key_val, v2)
                              ELSE Put(fmap, key_val, vec)
            IN Put(ci, coll, Put(cmap, field, fmap2))

RECURSIVE uci_loop(_, _, _, _, _, _)
uci_loop(ci, coll, fields, doc, p, add) ==
    IF fields = {} THEN ci
    ELSE LET field == CHOOSE x \in fields : TRUE
         IN uci_loop(uci_field(ci, coll, field, doc, p, add), coll,
                     fields \ {field}, doc, p, add)

update_custom_index(s, coll, doc, p, add) ==
    IF ~Has(s.indexed_fields, coll) THEN s
    ELSE [s EXCEPT !.custom_indexes =
            uci_loop(@, coll, s.indexed_fields[coll], doc, p, add)]

RECURSIVE rebuild_loop(_, _, _, _)
rebuild_loop(s, collection, array, i) ==
    IF i > Len(array) THEN s
    ELSE LET item == array[i]
             id_node == cJSON_GetObjectItem(item, "_id")
             s1 == IF cJSON_IsString(id_node)
                   THEN [s EXCEPT !.id_indexes[collection] = Put(@, id_node.v, i)]
                   ELSE s
         IN rebuild_loop(update_custom_index(s1, collection, item, i, TRUE),
                         collection, array, i + 1)

rebuild_index(s, collection, array) ==
    rebuild_loop([s EXCEPT !.id_indexes = Put(@, collection, <<>>),
                           !.custom_indexes = Put(@, collection, <<>>)],
                 collection, array, 1)

compact_collection(s, coll) ==
    IF ~Has(s.memory_store, coll) THEN Result(s, FALSE)
    ELSE Result([s EXCEPT !.disk = Engine_compact(@, coll, s.memory_store[coll])], TRUE)

trigger_compaction(s, coll) == compact_collection(s, coll)

validate(s, coll, data) ==
    IF ~Has(s.schemas, coll) THEN TRUE ELSE call_validate(data, s.schemas[coll])

set_schema(s, coll, schema) ==
    Result([s EXCEPT !.schemas = Put(@, coll, schema),
                     !.disk = Engine_append(@, "_schemas", schema)], TRUE)

insert(s, coll, data) ==
    IF ~validate(s, coll, data) THEN Result(s, FALSE)
    ELSE LET s1 == get_collection(s, coll)
             doc == IF ~cJSON_HasObjectItem(data, "_id")
                    THEN Put(data, "_id", JStr(generate(s1, coll)))
                    ELSE data
             uuid == cJSON_GetObjectItem(doc, "_id").v
             new_item == Len(s1.memory_store[coll]) + 1
             s2 == [s1 EXCEPT !.memory_store[coll] = Append(@, doc),
                              !.id_indexes[coll] = Put(@, uuid, new_item)]
             s3 == update_custom_index(s2, coll, doc, new_item, TRUE)
         IN Result([s3 EXCEPT !.disk = Engine_append(@, coll, doc)], TRUE)

RECURSIVE backfill(_, _, _)
backfill(s, coll, i) ==
    IF i > Len(s.memory_store[coll]) THEN s
    ELSE backfill(update_custom_index(s, coll, s.memory_store[coll][i], i, TRUE),
                  coll, i + 1)

\* the array of {collection, field} objects written to _indexes; the order
\* of its elements plays no part in the reader
IndexSnapshot(idx) ==
    {[collection |-> q[1], field |-> q[2]] :
        q \in {r \in (DOMAIN idx) \X Fields : r[2] \in idx[r[1]]}}

create_index(s, coll, field) ==
    LET s0 == [s EXCEPT !.indexed_fields = Put(@, coll, Get(@, coll, {}))]
    IN IF field \in s0.indexed_fields[coll] THEN Result(s0, TRUE)
       ELSE LET s1 == [s0 EXCEPT !.indexed_fields[coll] = @ \cup {field}]
                s2 == IF Has(s1.memory_store, coll) THEN backfill(s1, coll, 1) ELSE s1
            IN Result([s2 EXCEPT !.disk = Engine_compact(@, "_indexes",
                                     <<IndexSnapshot(s2.indexed_fields)>>)], TRUE)

count(s, coll, query) ==
    IF ~Has(s.memory_store, coll) THEN 0
    ELSE IF cJSON_GetArraySize(query) = 0 THEN Len(s.memory_store[coll])
    ELSE call_count(s.memory_store[coll], query)

\* the value key that find and remove derive from a single-key query
QueryKey(child) == IF cJSON_IsString(child) THEN child.v
                   ELSE IF cJSON_IsNumber(child) THEN std_to_string(child)
                   ELSE ""

OnlyKey(query) == CHOOSE k \in DOMAIN query : TRUE

DerefAll(arr, ptrs) == [i \in 1..Len(ptrs) |-> Deref(arr, ptrs[i])]

find(s, coll, query, sort, projection, limit, skip) ==
    IF ~Has(s.memory_store, coll) THEN Result(s, <<>>)
    ELSE
    LET id_query == cJSON_GetObjectItem(query, "_id")
        simple_req == cJSON_GetArraySize(sort) = 0 /\ cJSON_GetArraySize(projection) = 0
        arr == s.memory_store[coll]
    IN IF simple_req /\ cJSON_IsString(id_query)
       THEN LET s1 == [s EXCEPT !.id_indexes = Put(@, coll, Get(@, coll, <<>>))]
            IN IF Has(s1.id_indexes[coll], id_query.v)
               THEN Result(s1, <<Deref(arr, s1.id_indexes[coll][id_query.v])>>)
               ELSE Result(s1, <<>>)
       ELSE IF /\ simple_req /\ cJSON_GetArraySize(query) = 1
               /\ Has(s.indexed_fields, coll)
               /\ OnlyKey(query) \in s.indexed_fields[coll]
               /\ QueryKey(query[OnlyKey(query)]) # ""
       THEN LET child == OnlyKey(query)
                val_str == QueryKey(query[child])
                \* custom_indexes_[coll][child->string]: operator[] twice
                cmap == Get(s.custom_indexes, coll, <<>>)
                fmap == Get(cmap, child, <<>>)
                s1 == [s EXCEPT !.custom_indexes = Put(@, coll, Put(cmap, child, fmap))]
            IN IF Has(fmap, val_str)
               THEN LET docs == fmap[val_str]
                        end == IF limit > 0 /\ skip + limit < Len(docs)
                               THEN skip + limit ELSE Len(docs)
                    IN Result(s1, IF skip < Len(docs)
                                  THEN DerefAll(arr, SubSeq(docs, skip + 1, end))
                                  ELSE <<>>)
               ELSE Result(s1, <<>>)
       ELSE Result(s, call_find(arr, query, projection, limit, skip))

update(s, coll, query, data) ==
    IF ~Has(s.memory_store, coll) THEN Result(s, FALSE)
    ELSE LET new_collection == call_update(s.memory_store[coll], query, data)
             s1 == [s EXCEPT !.memory_store[coll] = new_collection]
             s2 == rebuild_index(s1, coll, new_collection)
         IN Result(compact_collection(s2, coll).st, TRUE)

upsert(s, coll, query, data) ==
    IF count(s, coll, query) > 0 THEN update(s, coll, query, data)
    ELSE insert(s, coll, data)

\* Detaching the document at target from its array: the pointers to the
\* documents behind it follow them, a pointer to the detached document is
\* left dangling.
Renorm(p, target) == IF p = target THEN 0 ELSE IF p > target THEN p - 1 ELSE p
MapVals(m, F(_)) == IF DOMAIN m = {} THEN <<>> ELSE [k \in DOMAIN m |-> F(m[k])]

cJSON_DetachItemViaPointer(s, coll, target) ==
    LET R(p) == Renorm(p, target)
        RV(vec) == MapVals(vec, R)
        RF(fmap) == MapVals(fmap, RV)
    IN [s EXCEPT !.memory_store[coll] = RemoveAt(@, target),
                 !.id_indexes = IF Has(@, coll) THEN [@ EXCEPT ![coll] = MapVals(@, R)] ELSE @,
                 !.custom_indexes = IF Has(@, coll) THEN [@ EXCEPT ![coll] = MapVals(@, RF)]
                                    ELSE @]

Tombstone(uuid) == [_id |-> JStr(uuid), _deleted |-> JTrue]

\* the _id strings of a list of documents, in list order
RECURSIVE IdStrings(_)
IdStrings(docs) ==
    IF docs = <<>> THEN <<>>
    ELSE (IF cJSON_IsString(cJSON_GetObjectItem(Head(docs), "_id"))
          THEN <<Head(docs)["_id"].v>> ELSE <<>>) \o IdStrings(Tail(docs))

RECURSIVE remove_loop(_, _, _)
remove_loop(s, coll, ids_to_remove) ==
    IF ids_to_remove = <<>> THEN s
    ELSE LET uuid == Head(ids_to_remove)
         IN IF ~Has(s.id_indexes[coll], uuid)
            THEN remove_loop(s, coll, Tail(ids_to_remove))
            ELSE LET target_doc == s.id_indexes[coll][uuid]
                     s1 == [s EXCEPT !.disk = Engine_append(@, coll, Tombstone(uuid))]
                     s2 == update_custom_index(s1, coll, Deref(s1.memory_store[coll], target_doc),
                                               target_doc, FALSE)
                     s3 == [s2 EXCEPT !.id_indexes[coll] = Del(@, uuid)]
                     s4 == cJSON_DetachItemViaPointer(s3, coll, target_doc)
                 IN remove_loop(s4, coll, Tail(ids_to_remove))

\* the ids that the three tiers of remove hand to its loop; the collection
\* is one that exists in memory
ids_to_remove(s, coll, query) ==
    LET id_query == cJSON_GetObjectItem(query, "_id")
        is_simple_req == cJSON_GetArraySize(query) = 1
        arr == s.memory_store[coll]
        tier1 == is_simple_req /\ cJSON_IsString(id_query)
        tier2 == /\ ~tier1 /\ is_simple_req /\ Has(s.indexed_fields, coll)
                 /\ OnlyKey(query) \in s.indexed_fields[coll]
                 /\ QueryKey(query[OnlyKey(query)]) # ""
        fast == IF tier1
                THEN (IF Has(s.id_indexes[coll], id_query.v) THEN <<id_query.v>> ELSE <<>>)
                ELSE IF tier2
                THEN LET child == OnlyKey(query)
                         val_str == QueryKey(query[child])
                         cmap == Get(s.custom_indexes, coll, <<>>)
                     IN IF Has(cmap, child) /\ Has(cmap[child], val_str)
                        THEN IdStrings(DerefAll(arr, cmap[child][val_str]))
                        ELSE <<>>
                ELSE <<>>
    IN IF fast = <<>>
       THEN IdStrings(call_find(arr, query, EmptyObj, 0, 0))
       ELSE fast

remove(s, coll, query) ==
    IF ~Has(s.memory_store, coll) THEN Result(s, FALSE)
    ELSE
    LET id_query == cJSON_GetObjectItem(query, "_id")
        is_simple_req == cJSON_GetArraySize(query) = 1
        tier1 == is_simple_req /\ cJSON_IsString(id_query)
        tier2 == /\ ~tier1 /\ is_simple_req /\ Has(s.indexed_fields, coll)
                 /\ OnlyKey(query) \in s.indexed_fields[coll]
                 /\ QueryKey(query[OnlyKey(query)]) # ""
        \* custom_indexes_[coll].count(child->string): operator[] once
        s1 == IF tier2
              THEN [s EXCEPT !.custom_indexes = Put(@, coll, Get(@, coll, <<>>))]
              ELSE s
        ids == ids_to_remove(s, coll, query)
    IN IF ids = <<>> THEN Result(s1, FALSE)
       ELSE Result(remove_loop(s1, coll, ids), TRUE)

ParseRole(role) == IF role = "admin" THEN "ADMIN"
                   ELSE IF role = "read_write" THEN "READ_WRITE"
                   ELSE "READ_ONLY"

create_user(s, key, role, now) ==
    LET hashed == hash_key(key)
        user_doc == [_id |-> JStr(generate(s, "_auth")), role |-> JStr(role),
                     key_hash |-> JStr(hashed), created_at |-> JNum(now)]
        s1 == [s EXCEPT !.auth_cache = Put(@, hashed, ParseRole(role)),
                        !.disk = Engine_append(@, "_auth", user_doc)]
        s2 == get_collection(s1, "_auth")
    IN Result([s2 EXCEPT !.memory_store["_auth"] = Append(@, user_doc)], TRUE)

authenticate(s, key) ==
    IF key = <<>> THEN "NONE"
    ELSE LET hashed == hash_key(key)
         IN IF Has(s.auth_cache, hashed) THEN s.auth_cache[hashed] ELSE "NONE"

\* has_permission letting READ_ONLY write
has_permission_lax(user_role, action) ==
    IF user_role = "ADMIN" THEN TRUE
    ELSE action \in {"insert", "update", "delete", "upsert", "find", "count"}

has_permission(user_role, action) ==
    IF user_role = "ADMIN" THEN TRUE
    ELSE IF user_role = "READ_WRITE"
    THEN action \in {"insert", "update", "delete", "upsert", "find", "count"}
    ELSE IF user_role = "READ_ONLY" THEN action \in {"find", "count"}
    ELSE FALSE

\* ------------------------------------------------------------- recovery
\* the fold of load_all keeping a tombstone as if it were a document
RECURSIVE Replay_keeping_tombstones(_, _)
Replay_keeping_tombstones(temp_map, logs) ==
    IF logs = <<>> THEN temp_map
    ELSE LET item == Head(logs)
             id_node == cJSON_GetObjectItem(item, "_id")
         IN IF cJSON_IsString(id_node)
            THEN Replay_keeping_tombstones(Put(temp_map, id_node.v, item), Tail(logs))
            ELSE Replay_keeping_tombstones(temp_map, Tail(logs))

\* the temporary _id -> document map that load_all folds the frames into
\* A payload is the text of a JSON value, held as that value, or a text that
\* is no JSON, held as Unparsable(text); cJSON_Parse gives a null pointer
\* for the latter.
Unparsable(text) == [unparsable |-> text]
cJSON_Parse(raw) == IF "unparsable" \in DOMAIN raw THEN NULL ELSE raw
\* the loop that stops at the first frame that does not parse
RECURSIVE Replay_stopping(_, _)
Replay_stopping(temp_map, logs) ==
    IF logs = <<>> \/ cJSON_Parse(Head(logs)) = NULL THEN temp_map
    ELSE LET item == cJSON_Parse(Head(logs))
             id_node == cJSON_GetObjectItem(item, "_id")
             deleted == cJSON_GetObjectItem(item, "_deleted")
         IN IF cJSON_IsString(id_node)
            THEN IF cJSON_IsTrue(deleted)
                 THEN Replay_stopping(Del(temp_map, id_node.v), Tail(logs))
                 ELSE Replay_stopping(Put(temp_map, id_node.v, item), Tail(logs))
            ELSE Replay_stopping(temp_map, Tail(logs))
RECURSIVE Replay(_, _)
Replay(temp_map, logs) ==
    IF logs = <<>> THEN temp_map
    ELSE LET item == cJSON_Parse(Head(logs))
             id_node == cJSON_GetObjectItem(item, "_id")
             deleted == cJSON_GetObjectItem(item, "_deleted")
         IN IF item = NULL THEN Replay(temp_map, Tail(logs))
            ELSE IF cJSON_IsString(id_node)
            THEN IF cJSON_IsTrue(deleted)
                 THEN Replay(Del(temp_map, id_node.v), Tail(logs))
                 ELSE Replay(Put(temp_map, id_node.v, item), Tail(logs))
            ELSE Replay(temp_map, Tail(logs))

TempMap(d, name) == Replay(<<>>, load_log(d, name))

LoadIndexes(idx, logs) ==
    LET items == UNION SeqRange(logs)
        cs == DOMAIN idx \cup {it.collection : it \in items}
    IN IF cs = {} THEN <<>>
       ELSE [c \in cs |-> Get(idx, c, {}) \cup {it.field : it \in {x \in items : x.collection = c}}]

RECURSIVE LoadSchemas(_, _)
LoadSchemas(sch, logs) ==
    IF logs = <<>> THEN sch
    ELSE LET c_name == Head(logs).collection
         IN LoadSchemas(IF cJSON_IsString(c_name) THEN Put(sch, c_name.v, Head(logs)) ELSE sch,
                        Tail(logs))

RECURSIVE LoadAuth(_, _)
LoadAuth(cache, arr) ==
    IF arr = <<>> THEN cache
    ELSE LET k == cJSON_GetObjectItem(Head(arr), "key_hash")
             r == cJSON_GetObjectItem(Head(arr), "role")
         IN LoadAuth(IF k # NULL /\ r # NULL THEN Put(cache, k.v, ParseRole(r.v)) ELSE cache,
                     Tail(arr))

\* one iteration of the loop of load_all over the collection names; order
\* is the order in which the unordered temp_map hands out its documents
\* the heuristic of load_all compacting a log of twice its live documents
log_needs_compaction_eager(frames, live) ==
    frames >= live * CompactRatio /\ live > CompactMinLive

\* the heuristic at the end of the loop body of load_all, on logs.size()
\* and temp_map.size()
log_needs_compaction(frames, live) ==
    frames > live * CompactRatio /\ live > CompactMinLive

load_one(s, name, order) ==
    LET logs == load_log(s.disk, name)
    IN IF name = "_indexes"
       THEN [s EXCEPT !.indexed_fields = LoadIndexes(@, logs)]
       ELSE IF name = "_schemas"
       THEN [s EXCEPT !.schemas = LoadSchemas(@, logs)]
       ELSE LET temp_map == Replay(<<>>, logs)
                collection_arr == IF order = <<>> THEN <<>>
                                  ELSE [i \in 1..Len(order) |-> temp_map[order[i]]]
                s1 == [s EXCEPT !.memory_store = Put(@, name, collection_arr)]
                s2 == rebuild_index(s1, name, collection_arr)
                s3 == IF name = "_auth"
                      THEN [s2 EXCEPT !.auth_cache = LoadAuth(@, collection_arr)]
                      ELSE s2
            IN IF log_needs_compaction(Len(logs), Cardinality(DOMAIN temp_map))
               THEN compact_collection(s3, name).st
               ELSE s3

RECURSIVE load_all(_, _, _)
load_all(s, names, orders) ==
    IF names = <<>> THEN s
    ELSE load_all(load_one(s, Head(names), Get(orders, Head(names), <<>>)),
                  Tail(names), orders)

\* the orders the directory iterator may list the files in
list_collections(d) == PermsOf(CollectionFiles(d))

\* the orders the temp_map of each data collection may be iterated in
DataNames(d) == CollectionFiles(d) \ {"_indexes", "_schemas"}
IterationOrders(d) ==
    LET all == UNION {PermsOf(DOMAIN TempMap(d, n)) : n \in DataNames(d)}
    IN {o \in [DataNames(d) -> all] :
           \A n \in DataNames(d) : o[n] \in PermsOf(DOMAIN TempMap(d, n))}

Clock == {"1767225600"}

\* Db::Db on directory d
\* the constructor without its safety net
Db_Db_no_bootstrap(d, names, orders, now) ==
    load_all(Blank(d), names, orders)

Db_Db(d, names, orders, now) ==
    LET s1 == load_all(Blank(d), names, orders)
    IN IF DOMAIN s1.auth_cache = {} THEN create_user(s1, KeyRoot, "admin", now).st
       ELSE s1

\* -------------------------------------------------------------- Handler
\* A request is the parsed JSON object: members names the members it
\* carries beside action. The credential and the key of create_user are
\* strings of character codes; data stands for the member the action reads
\* its document from (data, update or schema). The data and count members
\* of a response are left out.
Request(action, members, auth, collection, data, query, field, key, role) ==
    [key |-> key, collection |-> collection, query |-> query, field |-> field,
     data |-> data, role |-> role, action |-> action, members |-> members, auth |-> auth]
Carries(req, member) == member \in req.members

Response(status, message) == [status |-> status, message |-> message]
Answer(s, success, ok_msg, err_msg) ==
    Result(s, Response(IF success THEN "ok" ELSE "error",
                       IF success THEN ok_msg ELSE err_msg))

\* the dispatch of Handler::process, entered by a request that passed the
\* authentication and the authorization phase
Dispatch(s, req, role, now) ==
    LET action == req.action
        collection == req.collection
    IN IF action = "create_user"
       THEN IF role # "ADMIN"
            THEN Answer(s, FALSE, "", "Forbidden: User provisioning requires ADMIN role")
            ELSE IF Carries(req, "key") /\ Carries(req, "role")
            THEN LET r == create_user(s, req.key, req.role, now)
                 IN Answer(r.st, r.rv, "User created successfully", "Failed to persist user")
            ELSE Answer(s, FALSE, "", "Missing required arguments: 'key' or 'role'")
       ELSE IF action = "insert"
       THEN IF Carries(req, "data")
            THEN LET r == insert(s, collection, req.data)
                 IN Answer(r.st, r.rv, "Document inserted",
                           "Insert failed (Schema violation or I/O error)")
            ELSE Answer(s, FALSE, "", "Missing payload: 'data'")
       ELSE IF action = "upsert"
       THEN IF Carries(req, "query") /\ Carries(req, "data")
            THEN LET r == upsert(s, collection, req.query, req.data)
                 IN Answer(r.st, r.rv, "Document upserted", "Upsert failed")
            ELSE Answer(s, FALSE, "", "Missing arguments: 'query' or 'data'")
       ELSE IF action = "find"
       THEN LET q == IF Carries(req, "query") THEN req.query ELSE EmptyObj
            IN Answer(find(s, collection, q, EmptyObj, EmptyObj, 0, 0).st, TRUE, "", "")
       ELSE IF action = "count"
       THEN Answer(s, TRUE, "", "")
       ELSE IF action = "update"
       THEN IF Carries(req, "query") /\ Carries(req, "data")
            THEN LET r == update(s, collection, req.query, req.data)
                 IN Answer(r.st, r.rv, "Update committed",
                           "Update failed (Collection not found or I/O error)")
            ELSE Answer(s, FALSE, "", "Missing arguments: 'query' or 'update'")
       ELSE IF action = "delete"
       THEN IF Carries(req, "query")
            THEN LET r == remove(s, collection, req.query)
                 IN Answer(r.st, r.rv, "Documents deleted",
                           "No documents matched or collection not found")
            ELSE Answer(s, FALSE, "", "Missing argument: 'query'")
       ELSE IF action = "set_schema"
       THEN IF role # "ADMIN"
            THEN Answer(s, FALSE, "", "Forbidden: Only ADMIN can modify schemas")
            ELSE IF Carries(req, "data")
            THEN LET r == set_schema(s, collection, req.data)
                 IN Answer(r.st, r.rv, "Schema applied", "Failed to persist schema")
            ELSE Answer(s, FALSE, "", "Missing argument: 'schema'")
       ELSE IF action = "create_index"
       THEN IF role # "ADMIN"
            THEN Answer(s, FALSE, "", "Forbidden: Only ADMIN can manage indexes")
            ELSE IF Carries(req, "field")
            THEN LET r == create_index(s, collection, req.field)
                 IN Answer(r.st, r.rv, "Index created and backfilled", "Index creation failed")
            ELSE Answer(s, FALSE, "", "Missing argument: 'field'")
       ELSE IF action = "compact"
       THEN IF role # "ADMIN"
            THEN Answer(s, FALSE, "", "Forbidden: Maintenance commands are ADMIN-only")
            ELSE LET r == trigger_compaction(s, collection)
                 IN Answer(r.st, r.rv, "Compaction completed", "Compaction failed")
       ELSE Answer(s, FALSE, "", "Unknown action opcode")

Unauthorized == Response("error", "Unauthorized: Invalid or missing API Key")
Forbidden == Response("error", "Forbidden: Insufficient RBAC privileges")

\* process without its authorization phase
Handler_process_unchecked(s, req, now) ==
    LET api_key == IF Carries(req, "auth") THEN req.auth ELSE <<>>
        role == authenticate(s, api_key)
    IN IF role = "NONE" THEN Result(s, Unauthorized)
       ELSE Dispatch(s, req, role, now)

Handler_process(s, req, now) ==
    LET api_key == IF Carries(req, "auth") THEN req.auth ELSE <<>>
        role == authenticate(s, api_key)
    IN IF role = "NONE" THEN Result(s, Unauthorized)
       ELSE IF req.action # "create_user" /\ ~has_permission(role, req.action)
       THEN Result(s, Forbidden)
       ELSE IF req.action = "exit" THEN Result(s, Response("goodbye", "Closing connection"))
       ELSE Dispatch(s, req, role, now)

\* ---------------------------------------------------------------- actions
Returned(op, val) == ret' = [val |-> val, op |-> op]
LogLen(s, name) == Len(FileAt(s.disk, get_path(name)))
DocCount(s, name) == Len(Get(s.memory_store, name, <<>>))
\* the bounds on the arrays and on the logs
Fits(s) == \A n \in CollectionFiles(s.disk) \cup DOMAIN s.memory_store :
              LogLen(s, n) <= MaxLog /\ DocCount(s, n) <= MaxDocs
CanAssignId(c, d) == "_id" \in DOMAIN d \/ FreshIds(get_collection(Cur, c), c) # {}

Threads == 1..NThreads
Unlocked == [writer |-> 0, readers |-> {}]
Call(at, op, coll, query, data, field, key, existing) ==
    [key |-> key, coll |-> coll, query |-> query, field |-> field, data |-> data,
     op |-> op, at |-> at, existing |-> existing]
PcIdle == Call("idle", "", "", EmptyObj, EmptyObj, "", <<>>, 0)
CpcIdle == [i |-> 0, collection |-> "", active_docs |-> <<>>, at |-> "idle",
            fail |-> FALSE, before |-> <<>>]

\* --- the thread pool (infra/scheduler)
NWorkers == 2
MaxTasks == 3
Workers == 1 .. NWorkers
\* the threads that take queue_mutex_ besides the workers
Nobody == 0
Caller == NWorkers + 1
Destroyer == NWorkers + 2
\* an empty std::function
NoTask == 0

\* Scheduler::Scheduler: every worker thread starts at the top of its loop
SchedulerInit ==
    /\ tasks_ = <<>> /\ stop_ = FALSE /\ queue_mutex_ = Nobody
    /\ condition_ = {}
    /\ workers_ = [w \in Workers |-> "top"]
    /\ task = [w \in Workers |-> NoTask]
    /\ producer = "idle" /\ submitted = 0
    /\ destructor = "alive" /\ joined = 0
    /\ taken = <<>> /\ ran = [t \in 1 .. MaxTasks |-> 0]

\* Server::Server: not running, no listener, no client; a socket number
\* stands for the connection accept returns it for
Untouched == [closes |-> 0, inbox |-> 0, fin |-> FALSE]
ServerInit ==
    /\ running_ = FALSE /\ server_fd_ = "none" /\ client_sockets_ = <<>>
    /\ sockets = [s \in 1 .. MaxTasks |-> Untouched]
    /\ stopper = "idle"

\* no call is in progress
Quiet == cpc.at = "idle" /\ \A t \in Threads : pc[t].at = "idle"
Alone == Quiet /\ UNCHANGED <<rw_lock, pc, cpc, schedvars>>

Init ==
    \E now \in Clock :
       LET s == Db_Db(<<>>, <<>>, <<>>, now)
       IN /\ memory_store = s.memory_store /\ id_indexes = s.id_indexes
          /\ schemas = s.schemas /\ custom_indexes = s.custom_indexes
          /\ indexed_fields = s.indexed_fields /\ auth_cache = s.auth_cache
          /\ disk = s.disk
          /\ ret = [val |-> TRUE, op |-> "Db"]
          /\ rw_lock = Unlocked
          /\ pc = [t \in Threads |-> PcIdle]
          /\ cpc = CpcIdle
          /\ SchedulerInit
          /\ ServerInit

\* --- one client: every call runs from lock to unlock in one step
Insert(c, d) ==
    /\ Alone /\ CanAssignId(c, d)
    /\ LET r == insert(Cur, c, d)
       IN Fits(r.st) /\ Commit(r.st) /\ Returned("insert", r.rv)

Upsert(c, q, d) ==
    /\ Alone /\ CanAssignId(c, d)
    /\ LET r == upsert(Cur, c, q, d)
       IN Fits(r.st) /\ Commit(r.st) /\ Returned("upsert", r.rv)

Update(c, q, u) ==
    /\ Alone
    /\ LET r == update(Cur, c, q, u)
       IN Commit(r.st) /\ Returned("update", r.rv)

Remove(c, q) ==
    /\ Alone
    /\ LET r == remove(Cur, c, q)
       IN Fits(r.st) /\ Commit(r.st) /\ Returned("remove", r.rv)

Find(c, q, projection, limit, skip) ==
    /\ Alone
    /\ LET r == find(Cur, c, q, EmptyObj, projection, limit, skip)
       IN Commit(r.st) /\ Returned("find", r.rv)

Count(c, q) ==
    /\ Alone
    /\ UNCHANGED dbvars
    /\ Returned("count", count(Cur, c, q))

CreateIndex(c, f) ==
    /\ Alone
    /\ LET r == create_index(Cur, c, f)
       IN Commit(r.st) /\ Returned("create_index", r.rv)

SetSchema(c, schema) ==
    /\ Alone
    /\ LET r == set_schema(Cur, c, schema)
       IN Fits(r.st) /\ Commit(r.st) /\ Returned("set_schema", r.rv)

TriggerCompaction(c) ==
    /\ Alone
    /\ LET r == trigger_compaction(Cur, c)
       IN Commit(r.st) /\ Returned("trigger_compaction", r.rv)

\* ~Db followed by Db::Db on the same directory
Restart ==
    \E names \in list_collections(disk), orders \in IterationOrders(disk), now \in Clock :
       /\ Commit(Db_Db(disk, names, orders, now))
       /\ Returned("Db", TRUE)

Reopen == Alone /\ Restart

\* projection, limit and skip of the find calls
FindOpts == {<<EmptyObj, 0, 0>>, <<EmptyObj, 1, 1>>, <<[f |-> JNum("1")], 0, 0>>}

\* the write path of one client, with restarts
Next ==
    \/ \E c \in Colls, d \in InDocs : Insert(c, d)
    \/ \E c \in Colls, q \in Queries, u \in Updates : Update(c, q, u)
    \/ \E c \in Colls, q \in Queries : Remove(c, q)
    \/ \E c \in Colls, f \in Fields : CreateIndex(c, f)
    \/ \E c \in Colls : TriggerCompaction(c)
    \/ Reopen

Spec == Init /\ [][Next]_vars

\* the write path of one client on a running instance
NextWrite ==
    \/ \E c \in Colls, d \in InDocs : Insert(c, d)
    \/ \E c \in Colls, q \in Queries, u \in Updates : Update(c, q, u)
    \/ \E c \in Colls, q \in Queries : Remove(c, q)
    \/ \E c \in Colls, f \in Fields : CreateIndex(c, f)
    \/ \E c \in Colls : TriggerCompaction(c)

SpecWrite == Init /\ [][NextWrite]_vars

\* the read path over the states that inserts, index declarations, removals
\* and restarts produce
NextQuery ==
    \/ \E c \in Colls, d \in InDocs : Insert(c, d)
    \/ \E c \in Colls, q \in Queries : Remove(c, q)
    \/ \E c \in Colls, f \in Fields : CreateIndex(c, f)
    \/ \E c \in Colls, q \in Queries, o \in FindOpts : Find(c, q, o[1], o[2], o[3])
    \/ \E c \in Colls, q \in Queries : Count(c, q)
    \/ Reopen

SpecQuery == Init /\ [][NextQuery]_vars

\* schema registration and the writes that validation guards
NextSchema ==
    \/ \E c \in Colls, schema \in InSchemas : SetSchema(c, schema)
    \/ \E c \in Colls, d \in InDocs : Insert(c, d)
    \/ \E c \in Colls, q \in Queries, d \in InDocs : Upsert(c, q, d)
    \/ \E c \in Colls, q \in Queries : Remove(c, q)
    \/ Reopen

SpecSchema == Init /\ [][NextSchema]_vars

\* --- several client threads: a call is split where it takes and drops
\* rw_lock_; what it does while it holds the lock is one step
CanLockShared == rw_lock.writer = 0
CanLockUnique == rw_lock.writer = 0 /\ rw_lock.readers = {}
Idle(t) == pc[t].at = "idle" /\ cpc.at = "idle"

LockShared(t, call) ==
    /\ Idle(t) /\ CanLockShared
    /\ rw_lock' = [rw_lock EXCEPT !.readers = @ \cup {t}]
    /\ pc' = [pc EXCEPT ![t] = call]
    /\ UNCHANGED <<dbvars, ret, cpc>> /\ UNCHANGED schedvars

LockUnique(t, call) ==
    /\ CanLockUnique
    /\ rw_lock' = [rw_lock EXCEPT !.writer = t]
    /\ pc' = [pc EXCEPT ![t] = call]
    /\ UNCHANGED <<dbvars, ret, cpc>> /\ UNCHANGED schedvars

\* std::shared_lock lock(rw_lock_) in find, count, authenticate and in the
\* count that upsert starts with
CallFind(t, c, q) ==
    LockShared(t, Call("shared", "find", c, q, EmptyObj, "", <<>>, 0))
CallCount(t, c, q) ==
    LockShared(t, Call("shared", "count", c, q, EmptyObj, "", <<>>, 0))
CallAuthenticate(t, key) ==
    LockShared(t, Call("shared", "authenticate", "", EmptyObj, EmptyObj, "", key, 0))
CallUpsert(t, c, q, d) ==
    LockShared(t, Call("shared", "upsert", c, q, d, "", <<>>, 0))

\* std::unique_lock lock(rw_lock_) in insert and create_index
CallInsert(t, c, d) ==
    /\ Idle(t) /\ CanAssignId(c, d) /\ Fits(insert(Cur, c, d).st)
    /\ LockUnique(t, Call("unique", "insert", c, EmptyObj, d, "", <<>>, 0))
CallCreateIndex(t, c, f) ==
    /\ Idle(t)
    /\ LockUnique(t, Call("unique", "create_index", c, EmptyObj, EmptyObj, f, <<>>, 0))

\* the body of a reader, to the release of the shared lock; upsert goes on
\* to its second half with the count it obtained
RunShared(t) ==
    /\ pc[t].at = "shared"
    /\ rw_lock' = [rw_lock EXCEPT !.readers = @ \ {t}]
    /\ UNCHANGED cpc /\ UNCHANGED schedvars
    /\ LET call == pc[t]
       IN IF call.op = "find"
          THEN LET r == find(Cur, call.coll, call.query, EmptyObj, EmptyObj, 0, 0)
               IN Commit(r.st) /\ Returned("find", r.rv) /\ pc' = [pc EXCEPT ![t] = PcIdle]
          ELSE IF call.op = "count"
          THEN /\ UNCHANGED dbvars
               /\ Returned("count", count(Cur, call.coll, call.query))
               /\ pc' = [pc EXCEPT ![t] = PcIdle]
          ELSE IF call.op = "authenticate"
          THEN /\ UNCHANGED dbvars
               /\ Returned("authenticate", authenticate(Cur, call.key))
               /\ pc' = [pc EXCEPT ![t] = PcIdle]
          ELSE /\ UNCHANGED <<dbvars, ret>>
               /\ pc' = [pc EXCEPT ![t] = [call EXCEPT !.at = "counted",
                            !.existing = count(Cur, call.coll, call.query)]]

\* upsert between its count and its update or insert: it holds no lock and
\* takes the exclusive one
UpsertMutation(s, call) ==
    IF call.existing > 0 THEN update(s, call.coll, call.query, call.data)
    ELSE insert(s, call.coll, call.data)

UpsertLockAgain(t) ==
    /\ pc[t].at = "counted"
    /\ pc[t].existing > 0 \/ CanAssignId(pc[t].coll, pc[t].data)
    /\ Fits(UpsertMutation(Cur, pc[t]).st)
    /\ LockUnique(t, [pc[t] EXCEPT !.at = "unique"])

\* the body of a writer, to the release of the exclusive lock
RunUnique(t) ==
    /\ pc[t].at = "unique"
    /\ rw_lock' = [rw_lock EXCEPT !.writer = 0]
    /\ pc' = [pc EXCEPT ![t] = PcIdle]
    /\ UNCHANGED cpc /\ UNCHANGED schedvars
    /\ LET call == pc[t]
           r == IF call.op = "insert" THEN insert(Cur, call.coll, call.data)
                ELSE IF call.op = "create_index" THEN create_index(Cur, call.coll, call.field)
                ELSE UpsertMutation(Cur, call)
       IN Commit(r.st) /\ Returned(call.op, r.rv)

ConcDocs == {[_id |-> JStr("a"), f |-> ValStr]}
ConcQueries == {[_id |-> JStr("a")], [g |-> ValStr]}
AuthKeys == {KeyRoot, <<107>>}

NextConc ==
    \/ \E t \in Threads, c \in Colls, q \in ConcQueries : CallFind(t, c, q)
    \/ \E t \in Threads, c \in Colls, q \in ConcQueries : CallCount(t, c, q)
    \/ \E t \in Threads, key \in AuthKeys : CallAuthenticate(t, key)
    \/ \E t \in Threads, c \in Colls, q \in ConcQueries, d \in ConcDocs : CallUpsert(t, c, q, d)
    \/ \E t \in Threads, c \in Colls, d \in ConcDocs : CallInsert(t, c, d)
    \/ \E t \in Threads, c \in Colls, f \in Fields : CallCreateIndex(t, c, f)
    \/ \E t \in Threads : RunShared(t)
    \/ \E t \in Threads : UpsertLockAgain(t)
    \/ \E t \in Threads : RunUnique(t)

SpecConc == Init /\ [][NextConc]_vars

\* --- Engine::compact statement by statement, under trigger_compaction,
\* with the writes that may fail and the process that may die
CompactCall(c) ==
    /\ Quiet
    /\ UNCHANGED <<dbvars, rw_lock, pc>> /\ UNCHANGED schedvars
    /\ IF ~Has(memory_store, c)
       THEN Returned("trigger_compaction", FALSE) /\ UNCHANGED cpc
       ELSE /\ cpc' = [i |-> 0, collection |-> c, active_docs |-> memory_store[c],
                       at |-> "open", fail |-> FALSE, before |-> FileAt(disk, get_path(c))]
            /\ UNCHANGED ret

CompactReturn(ok) == Returned("trigger_compaction", ok) /\ cpc' = CpcIdle

\* std::ofstream file(temp_path, binary | trunc)
CompactOpen ==
    /\ cpc.at = "open"
    /\ UNCHANGED <<guarded, rw_lock, pc>> /\ UNCHANGED schedvars
    /\ \E is_open \in BOOLEAN :
          IF is_open
          THEN /\ disk' = Put(disk, temp_path(cpc.collection), <<>>)
               /\ cpc' = [cpc EXCEPT !.at = "write"]
               /\ UNCHANGED ret
          ELSE UNCHANGED disk /\ CompactReturn(FALSE)

\* one turn of the loop: header and payload of active_docs[i]
CompactWrite ==
    /\ cpc.at = "write" /\ cpc.i < Len(cpc.active_docs)
    /\ UNCHANGED <<guarded, rw_lock, pc, ret>> /\ UNCHANGED schedvars
    /\ LET doc == cpc.active_docs[cpc.i + 1]
           tmp == temp_path(cpc.collection)
       IN IF cpc.fail
          THEN UNCHANGED disk /\ cpc' = [cpc EXCEPT !.i = @ + 1]
          ELSE \/ /\ disk' = Put(disk, tmp, Append(disk[tmp], Frame(doc)))
                  /\ cpc' = [cpc EXCEPT !.i = @ + 1]
               \/ /\ disk' = Put(disk, tmp, Append(disk[tmp], TornFrame(doc)))
                  /\ cpc' = [cpc EXCEPT !.i = @ + 1, !.fail = TRUE]
               \/ /\ UNCHANGED disk
                  /\ cpc' = [cpc EXCEPT !.i = @ + 1, !.fail = TRUE]

\* file.flush(); file.close();
CompactClose ==
    /\ cpc.at = "write" /\ cpc.i = Len(cpc.active_docs)
    /\ UNCHANGED <<dbvars, rw_lock, pc, ret>> /\ UNCHANGED schedvars
    /\ \E flushed \in BOOLEAN :
          cpc' = [cpc EXCEPT !.at = "check", !.fail = @ \/ ~flushed]

\* if (file.fail()) { fs::remove(temp_path); return false; }
CompactCheck ==
    /\ cpc.at = "check"
    /\ UNCHANGED <<guarded, rw_lock, pc>> /\ UNCHANGED schedvars
    /\ IF cpc.fail
       THEN disk' = Del(disk, temp_path(cpc.collection)) /\ CompactReturn(FALSE)
       ELSE UNCHANGED <<disk, ret>> /\ cpc' = [cpc EXCEPT !.at = "rename"]

\* fs::rename(temp_path, path), which replaces the target in one step or
\* throws and replaces nothing
CompactRename ==
    /\ cpc.at = "rename"
    /\ UNCHANGED <<guarded, rw_lock, pc>> /\ UNCHANGED schedvars
    /\ \E renamed \in BOOLEAN :
          IF renamed
          THEN /\ disk' = Put(Del(disk, temp_path(cpc.collection)),
                              get_path(cpc.collection), disk[temp_path(cpc.collection)])
               /\ CompactReturn(TRUE)
          ELSE UNCHANGED disk /\ CompactReturn(FALSE)

\* the process dies at any statement of compact and is started again on
\* what the directory holds
Crash ==
    /\ cpc.at # "idle"
    /\ Restart
    /\ cpc' = CpcIdle
    /\ UNCHANGED <<rw_lock, pc>> /\ UNCHANGED schedvars

\* a document with its own _id and one that is given one; a removal by _id
\* and a removal of everything
CompactDocs == {[_id |-> JStr("a"), f |-> ValStr], [f |-> ValStr]}
CompactQueries == {[_id |-> JStr("a")], EmptyObj}

NextCompact ==
    \/ \E c \in Colls, d \in CompactDocs : Insert(c, d)
    \/ \E c \in Colls, q \in CompactQueries : Remove(c, q)
    \/ \E c \in Colls : CompactCall(c)
    \/ CompactOpen
    \/ CompactWrite
    \/ CompactClose
    \/ CompactCheck
    \/ CompactRename
    \/ Crash

SpecCompact == Init /\ [][NextCompact]_vars

\* --- the request layer: one client sending requests under the credentials
\* it may or may not hold, and the permission table queried on its own
KeyK == <<107>>                       \* "k", provisioned by create_user
KeyX == <<120>>                       \* "x", never provisioned
Roles == {"ADMIN", "READ_WRITE", "READ_ONLY", "NONE"}
Opcodes == {"find", "count", "insert", "update", "delete", "upsert", "create_user",
            "set_schema", "create_index", "compact", "exit", "drop"}
ReqDoc == [_id |-> JStr("a"), f |-> ValStr]
ReqQuery == [_id |-> JStr("a")]
ReqData(action) == IF action = "set_schema" THEN SchemaOf(NULL, {"f"}, {<<"f", "s">>})
                   ELSE IF action = "update" THEN [f |-> ValNum]
                   ELSE ReqDoc
AllMembers == {"auth", "collection", "data", "query", "field", "key", "role"}
Credentials == {<<"auth", KeyRoot>>, <<"auth", KeyK>>, <<"auth", KeyX>>,
                <<"auth", <<>> >>, <<"none", <<>> >>}
ProvisionedRoles(action) == IF action = "create_user" THEN {"read_write", "read_only"}
                            ELSE {"read_only"}
\* what the root is seen to ask for; every other credential asks for everything
RootOpcodes == {"create_user", "insert", "delete", "create_index", "find", "exit"}
AnyRequest ==
    {Request(ar[1], (AllMembers \ {"auth"}) \cup {cr[1]}, cr[2], "c", ReqData(ar[1]),
             ReqQuery, "f", KeyK, ar[2]) :
        ar \in {x \in Opcodes \X {"read_write", "read_only"} : x[2] \in ProvisionedRoles(x[1])},
        cr \in Credentials}
Requests ==
    {req \in AnyRequest : req.auth = KeyRoot => req.action \in RootOpcodes}
    \cup {Request("insert", {"auth", "collection"}, KeyRoot, "c", ReqDoc, ReqQuery, "f",
                  KeyK, "read_only")}

CanProcess(req) ==
    /\ req.action = "create_user" => FreshIds(Cur, "_auth") # {}
    /\ req.action \in {"insert", "upsert"} => CanAssignId(req.collection, req.data)

Process(req) ==
    /\ Alone /\ CanProcess(req)
    /\ \E now \in Clock :
          LET r == Handler_process(Cur, req, now)
          IN /\ Fits(r.st) /\ Commit(r.st)
             /\ Returned("process", [req |-> req, resp |-> r.rv])

NextHandler ==
    \E req \in Requests : Process(req)

SpecHandler == Init /\ [][NextHandler]_vars

\* --- the auth store: provisioning, authentication and the permission
\* table across restarts; _auth is a collection like any other to remove
KeyRopS == <<114, 111, 112, 83>>      \* "ropS", never provisioned
AuthKeysAsked == {<<>>, KeyRoot, KeyK, KeyX, KeyRopS}
AuthKeysGiven == {KeyRoot, KeyK}
RoleStrings == {"admin", "read_write", "owner"}

CreateUser(key, role) ==
    /\ Alone /\ FreshIds(Cur, "_auth") # {}
    /\ \E now \in Clock :
          LET r == create_user(Cur, key, role, now)
          IN /\ Fits(r.st) /\ Commit(r.st)
             /\ Returned("create_user", [key |-> key, rv |-> r.rv, role |-> role])

Authenticate(key) ==
    /\ Alone
    /\ UNCHANGED dbvars
    /\ Returned("authenticate", [key |-> key, rv |-> authenticate(Cur, key)])

HasPermission(user_role, action) ==
    /\ Alone
    /\ UNCHANGED dbvars
    /\ Returned("has_permission", [rv |-> has_permission(user_role, action),
                                   role |-> user_role, action |-> action])

NextAuth ==
    \/ \E key \in AuthKeysGiven, role \in RoleStrings : CreateUser(key, role)
    \/ \E key \in AuthKeysAsked : Authenticate(key)
    \/ \E r \in Roles, a \in Opcodes : HasPermission(r, a)
    \/ Remove("_auth", EmptyObj)
    \/ Reopen

SpecAuth == Init /\ [][NextAuth]_vars

\* --- the Engine alone: raw strings appended to one log, an append cut
\* short by the death of the process at the end of the log, and the log read
RawStrings == {<<>>, <<123, 125>>, <<1, 0, 0, 0>>}
LogNames == {"c", "m"}
NoTornFrame(file) == \A i \in 1..Len(file) : file[i].complete

EngineAppend(collection, raw_json) ==
    /\ Alone /\ collection = "c"
    /\ NoTornFrame(FileAt(disk, get_path(collection)))
    /\ Len(FileAt(disk, get_path(collection))) < MaxLog
    /\ disk' = Engine_append(disk, collection, raw_json)
    /\ UNCHANGED guarded
    /\ Returned("append", [raw_json |-> raw_json, rv |-> TRUE])

EngineAppendCut(collection, raw_json) ==
    /\ Alone /\ collection = "c"
    /\ NoTornFrame(FileAt(disk, get_path(collection)))
    /\ Len(FileAt(disk, get_path(collection))) < MaxLog
    /\ disk' = Put(disk, get_path(collection),
                   Append(FileAt(disk, get_path(collection)), TornFrame(raw_json)))
    /\ UNCHANGED guarded
    /\ Returned("append", [raw_json |-> raw_json, rv |-> FALSE])

EngineLoadLog(collection) ==
    /\ Alone
    /\ UNCHANGED dbvars
    /\ Returned("load_log", [collection |-> collection, rv |-> load_log(disk, collection)])

NextLog ==
    \/ \E c \in LogNames, raw \in RawStrings : EngineAppend(c, raw)
    \/ \E c \in LogNames, raw \in RawStrings : EngineAppendCut(c, raw)
    \/ \E c \in LogNames : EngineLoadLog(c)

SpecLog == Init /\ [][NextLog]_vars

\* --- documents written, indexed and deleted, so that the logs hold
\* documents, newer versions of them and tombstones
NextTomb ==
    \/ \E c \in Colls, d \in InDocs : Insert(c, d)
    \/ \E c \in Colls, q \in Queries : Remove(c, q)
    \/ \E c \in Colls : CreateIndex(c, "f")

SpecTomb == Init /\ [][NextTomb]_vars

\* --- restarts of a directory whose logs may end in a frame cut short
\* the process dies while append writes a frame at the end of the log of
\* name, and is started again on what the directory holds
AppendCut(name) ==
    /\ Alone
    /\ NoTornFrame(FileAt(disk, get_path(name)))
    /\ LogLen(Cur, name) < MaxLog
    /\ LET d == Put(disk, get_path(name),
                    Append(FileAt(disk, get_path(name)), TornFrame(EmptyObj)))
       IN \E names \in list_collections(d), orders \in IterationOrders(d), now \in Clock :
             Commit(Db_Db(d, names, orders, now))
    /\ Returned("append", FALSE)

\* a restart as long as the logs stay within two frames of the bound
ReopenBounded ==
    /\ \A n \in CollectionFiles(disk) : LogLen(Cur, n) <= MaxLog + 2
    /\ Reopen

RecoverNames == Colls \cup {"_auth"}

NextRecover ==
    \/ \E c \in Colls, d \in CompactDocs : Insert(c, d)
    \/ \E c \in RecoverNames, q \in CompactQueries : Remove(c, q)
    \/ \E c \in RecoverNames : AppendCut(c)
    \/ ReopenBounded

SpecRecover == Init /\ [][NextRecover]_vars

\* --- the frame count of one log through recovery, as a function of the
\* number of whole frames it holds and of the number of documents live at
\* its end: compact_collection writes one frame per element of the array,
\* which holds the live documents
Margin == 2
recovered_frames(frames, live) ==
    IF log_needs_compaction(frames, live) THEN live ELSE frames
\* update leaves the log compacted to the array the engine returned, which
\* has as many documents as the array it was given
updated_frames(frames, live) == live

LiveCounts == (CompactMinLive - 4 * Margin)..(CompactMinLive + Margin)
FrameCounts(live) ==
    {live} \cup ((live * CompactRatio - 2 * Margin)..(live * CompactRatio + 2 * Margin))

Recover(frames, live) ==
    /\ Alone
    /\ UNCHANGED dbvars
    /\ Returned("load_all", [rv |-> recovered_frames(frames, live),
                             frames |-> frames, live |-> live])

\* live documents inserted, each updated once, and the instance reopened
RECURSIVE FramesAfterUpdates(_, _, _)
FramesAfterUpdates(frames, live, updates) ==
    IF updates = 0 THEN frames
    ELSE FramesAfterUpdates(updated_frames(frames, live), live, updates - 1)
UpdateAllAndReopen(live) ==
    /\ Alone
    /\ UNCHANGED dbvars
    /\ LET frames == FramesAfterUpdates(live, live, live)
       IN Returned("reopen", [rv |-> recovered_frames(frames, live),
                              frames |-> frames, live |-> live])

NextHeur ==
    \/ \E live \in LiveCounts : \E frames \in FrameCounts(live) : Recover(frames, live)
    \/ \E live \in LiveCounts : UpdateAllAndReopen(live)

SpecHeur == Init /\ [][NextHeur]_vars

\* --- schemas registered, the writes they guard, and restarts that read
\* _schemas back. A schema document carries a "collection" member only when
\* the caller wrote one into it.
SchemaInputs == {SchemaOf(NULL, {"f"}, {<<"f", "s">>}),
                 SchemaOf(JStr("c"), {"g"}, {})}
SchemaDocs == {[_id |-> JStr("a"), f |-> ValStr], [_id |-> JStr("b"), g |-> ValStr]}

NextSchemaLog ==
    \/ \E c \in Colls, schema \in SchemaInputs : SetSchema(c, schema)
    \/ \E c \in Colls, d \in SchemaDocs : Insert(c, d)
    \/ Reopen

SpecSchemaLog == Init /\ [][NextSchemaLog]_vars

\* --- log writes that fail. Engine::append and Engine::compact that cannot
\* open their file return false and leave the directory as it was; wrote
\* says whether the writes of the call go through. insert hands the flag of
\* its append on, update drops the flag of its compaction, remove drops the
\* flags of its tombstone appends.
insert_io(s, coll, data, wrote) ==
    LET r == insert(s, coll, data)
    IN IF wrote \/ ~validate(s, coll, data) THEN r
       ELSE Result([r.st EXCEPT !.disk = s.disk], FALSE)

update_io(s, coll, query, data, wrote) ==
    LET r == update(s, coll, query, data)
    IN IF wrote THEN r ELSE Result([r.st EXCEPT !.disk = s.disk], r.rv)

remove_io(s, coll, query, wrote) ==
    LET r == remove(s, coll, query)
    IN IF wrote THEN r ELSE Result([r.st EXCEPT !.disk = s.disk], r.rv)

\* a call, what it returned, and whether a log write it issued failed
ReturnedIo(op, rv, failed) == Returned(op, [rv |-> rv, failed |-> failed])

InsertIo(c, d, wrote) ==
    /\ Alone /\ CanAssignId(c, d)
    /\ LET r == insert_io(Cur, c, d, wrote)
       IN /\ Fits(r.st) /\ Commit(r.st)
          /\ ReturnedIo("insert", r.rv, ~wrote /\ validate(Cur, c, d))

UpdateIo(c, q, u, wrote) ==
    /\ Alone
    /\ LET r == update_io(Cur, c, q, u, wrote)
       IN /\ Commit(r.st)
          /\ ReturnedIo("update", r.rv, ~wrote /\ Has(memory_store, c))

RemoveIo(c, q, wrote) ==
    /\ Alone
    /\ LET r == remove_io(Cur, c, q, wrote)
       IN /\ Fits(r.st) /\ Commit(r.st)
          /\ ReturnedIo("remove", r.rv, ~wrote /\ remove(Cur, c, q).st.disk # disk)

\* documents that are given their _id, so that no two of them share one
IoDocs == {[f |-> x] : x \in Vals}
IoQueries == {[f |-> ValStr], EmptyObj}

NextIo ==
    \/ \E c \in Colls, d \in IoDocs, wrote \in BOOLEAN : InsertIo(c, d, wrote)
    \/ \E c \in Colls, q \in IoQueries, u \in Updates, wrote \in BOOLEAN : UpdateIo(c, q, u, wrote)
    \/ \E c \in Colls, q \in IoQueries, wrote \in BOOLEAN : RemoveIo(c, q, wrote)

SpecIo == Init /\ [][NextIo]_vars

\* --- the payloads of Handler::process: no text, text that does not parse,
\* or a JSON object whose members may have any JSON type. nonstring names
\* the members that are present with a value that is not a string, whose
\* valuestring is a null pointer.
Payload(kind, req, nonstring) == [req |-> req, kind |-> kind, nonstring |-> nonstring]

\* the request as the guarded reads of process see it,
\* (x && x->valuestring) ? x->valuestring : ""
GuardedReads(p) ==
    LET req == p.req
        Read(member, value, default) ==
            IF Carries(req, member) /\ member \notin p.nonstring THEN value ELSE default
    IN [req EXCEPT !.action = IF "action" \in p.nonstring THEN "" ELSE @,
                   !.auth = Read("auth", req.auth, <<>>),
                   !.collection = Read("collection", req.collection, ""),
                   !.members = @ \ (p.nonstring \cap {"field"})]

\* uuid = cJSON_GetObjectItem(data, "_id")->valuestring in insert, reached
\* by a document that passed validation
InsertReadsNullId(s, coll, data) ==
    /\ validate(s, coll, data)
    /\ cJSON_HasObjectItem(data, "_id")
    /\ ~cJSON_IsString(cJSON_GetObjectItem(data, "_id"))

\* the places where process, or the Db method it calls, makes a std::string
\* of a null pointer: the key and role of create_user, the _id of an
\* inserted document, and the printed query of a find that has none
NullToString(s, p) ==
    LET req == GuardedReads(p)
        role == authenticate(s, req.auth)
    IN /\ role # "NONE"
       /\ req.action = "create_user" \/ has_permission(role, req.action)
       /\ \/ /\ req.action = "create_user" /\ role = "ADMIN"
             /\ Carries(req, "key") /\ Carries(req, "role")
             /\ p.nonstring \cap {"key", "role"} # {}
          \/ /\ req.action = "insert" /\ Carries(req, "data")
             /\ InsertReadsNullId(s, req.collection, req.data)
          \/ /\ req.action = "upsert" /\ Carries(req, "query") /\ Carries(req, "data")
             /\ count(s, req.collection, req.query) = 0
             /\ InsertReadsNullId(s, req.collection, req.data)
          \/ /\ req.action = "find" /\ ~Carries(req, "query")
             /\ Has(s.memory_store, req.collection)

\* what a std::string made of a null pointer comes to: an exception that
\* leaves process, or the death of the process
NoResponse == {Response("none", "std::logic_error thrown"),
               Response("none", "process killed")}

\* process from the raw payload on; the set of the outcomes it may have
Handler_process_raw(s, p, now) ==
    IF p.kind = "empty" THEN {Result(s, Response("error", "Empty request payload"))}
    ELSE IF p.kind = "malformed" THEN {Result(s, Response("error", "Invalid JSON syntax"))}
    ELSE IF NullToString(s, p) THEN {Result(s, x) : x \in NoResponse}
    ELSE {Handler_process(s, GuardedReads(p), now)}

ProcessRaw(p) ==
    /\ Alone
    /\ p.kind = "json" => CanProcess(p.req)
    /\ \E now \in Clock : \E r \in Handler_process_raw(Cur, p, now) :
          /\ Fits(r.st) /\ Commit(r.st)
          /\ Returned("process_raw", [payload |-> p, resp |-> r.rv])

RawOpcodes == {"create_user", "insert", "upsert", "find", "count", "exit", "drop"}
RawDocs == {ReqDoc, [_id |-> JNum("1"), f |-> ValStr]}
RawRequests ==
    {Request(a, m, KeyRoot, "c", d, ReqQuery, "f", KeyK, "read_only") :
        a \in RawOpcodes, m \in {AllMembers, AllMembers \ {"query"}}, d \in RawDocs}
Payloads ==
    {Payload("empty", Request("", {}, <<>>, "", EmptyObj, EmptyObj, "", <<>>, ""), {}),
     Payload("malformed", Request("", {}, <<>>, "", EmptyObj, EmptyObj, "", <<>>, ""), {})}
    \cup {Payload("json", req, ns) :
             req \in RawRequests, ns \in {{}, {"key"}, {"action"}, {"auth"}}}

NextRaw ==
    \E p \in Payloads : ProcessRaw(p)

SpecRaw == Init /\ [][NextRaw]_vars

\* ---------------------------------------------------------- thread pool
\* std::queue::front and std::queue::pop
back(q) == IF q = <<>> THEN NoTask ELSE q[Len(q)]
front(q) == IF q = <<>> THEN NoTask ELSE Head(q)
pop(q) == SubSeq(q, 2, Len(q))
\* condition_.notify_one wakes one blocked worker, if there is one;
\* condition_.notify_all wakes every blocked worker
notify_one(blocked) == IF blocked = {} THEN {{}} ELSE {{w} : w \in blocked}
wake_one(blocked) == IF blocked = {} THEN {{}} ELSE {{w} : w \in blocked}
notify_all(blocked) == {blocked}
Woken(ws) == [w \in Workers |-> IF w \in ws THEN "woken" ELSE workers_[w]]
At(w, at) == workers_' = [workers_ EXCEPT ![w] = at]
schedlog == <<taken, ran>>
callers == <<producer, submitted, destructor, joined>>

\* worker loop: std::unique_lock lock(queue_mutex_), also the re-lock that
\* ends condition_.wait
WorkerLock(w) ==
    /\ workers_[w] \in {"top", "woken"} /\ queue_mutex_ = Nobody
    /\ queue_mutex_' = w /\ At(w, "wait")
    /\ UNCHANGED <<tasks_, stop_, condition_, task, callers, schedlog>>
\* condition_.wait(lock, pred): go on when the predicate holds, else unlock
\* and block
WorkerWait(w) ==
    /\ workers_[w] = "wait" /\ queue_mutex_ = w
    /\ IF stop_ \/ tasks_ # <<>>
       THEN At(w, "check") /\ UNCHANGED <<queue_mutex_, condition_>>
       ELSE At(w, "blocked") /\ queue_mutex_' = Nobody
            /\ condition_' = condition_ \cup {w}
    /\ UNCHANGED <<tasks_, stop_, task, callers, schedlog>>
\* if (stop_ && tasks_.empty()) return; else task = std::move(tasks_.front())
WorkerCheck(w) ==
    /\ workers_[w] = "check"
    /\ IF stop_ /\ tasks_ = <<>>
       THEN At(w, "exited") /\ queue_mutex_' = Nobody /\ UNCHANGED task
       ELSE At(w, "pop") /\ task' = [task EXCEPT ![w] = front(tasks_)]
            /\ UNCHANGED queue_mutex_
    /\ UNCHANGED <<tasks_, stop_, condition_, callers, schedlog>>
\* tasks_.pop(), and the lock is released at the end of the scope
WorkerPop(w) ==
    /\ workers_[w] = "pop"
    /\ tasks_' = pop(tasks_) /\ taken' = Append(taken, task[w])
    /\ queue_mutex_' = Nobody /\ At(w, "run")
    /\ UNCHANGED <<stop_, condition_, task, callers, ran>>
\* if (task) task(), then the loop starts over
WorkerRun(w) ==
    /\ workers_[w] = "run"
    /\ ran' = IF task[w] # NoTask THEN [ran EXCEPT ![task[w]] = @ + 1] ELSE ran
    /\ task' = [task EXCEPT ![w] = NoTask] /\ At(w, "top")
    /\ UNCHANGED <<tasks_, stop_, queue_mutex_, condition_, callers, taken>>
\* a condition variable may wake a waiter that nobody notified
SpuriousWake(w) ==
    /\ w \in condition_
    /\ condition_' = condition_ \ {w} /\ At(w, "woken")
    /\ UNCHANGED <<tasks_, stop_, queue_mutex_, task, callers, schedlog>>

\* Scheduler::enqueue: lock, tasks_.emplace, unlock, condition_.notify_one.
\* Tasks are numbered in the order they are submitted.
EnqueueLock ==
    /\ producer = "idle" /\ submitted < MaxTasks /\ destructor # "returned"
    /\ queue_mutex_ = Nobody
    /\ queue_mutex_' = Caller /\ producer' = "locked"
    /\ UNCHANGED <<tasks_, stop_, condition_, workers_, task, submitted,
                   destructor, joined, schedlog>>
EnqueueEmplace ==
    /\ producer = "locked"
    /\ tasks_' = Append(tasks_, submitted + 1) /\ submitted' = submitted + 1
    /\ queue_mutex_' = Nobody /\ producer' = "notify"
    /\ UNCHANGED <<stop_, condition_, workers_, task, destructor, joined,
                   schedlog>>
EnqueueNotify ==
    /\ producer = "notify"
    /\ \E ws \in notify_one(condition_) :
          condition_' = condition_ \ ws /\ workers_' = Woken(ws)
    /\ producer' = "idle"
    /\ UNCHANGED <<tasks_, stop_, queue_mutex_, task, submitted, destructor,
                   joined, schedlog>>

\* Scheduler::~Scheduler: stop_ = true under the lock, notify_all, join
DestructorLock ==
    /\ destructor = "alive" /\ queue_mutex_ = Nobody
    /\ queue_mutex_' = Destroyer /\ destructor' = "locked"
    /\ UNCHANGED <<tasks_, stop_, condition_, workers_, task, producer,
                   submitted, joined, schedlog>>
DestructorStop ==
    /\ destructor = "locked"
    /\ stop_' = TRUE /\ queue_mutex_' = Nobody /\ destructor' = "notify"
    /\ UNCHANGED <<tasks_, condition_, workers_, task, producer, submitted,
                   joined, schedlog>>
DestructorNotify ==
    /\ destructor = "notify"
    /\ \E ws \in notify_all(condition_) :
          condition_' = condition_ \ ws /\ workers_' = Woken(ws)
    /\ destructor' = "join"
    /\ UNCHANGED <<tasks_, stop_, queue_mutex_, task, producer, submitted,
                   joined, schedlog>>
\* worker.join() for each worker in turn, then the destructor returns
DestructorJoin ==
    /\ destructor = "join"
    /\ IF joined = NWorkers
       THEN destructor' = "returned" /\ UNCHANGED joined
       ELSE workers_[joined + 1] = "exited" /\ joined' = joined + 1
            /\ UNCHANGED destructor
    /\ UNCHANGED <<tasks_, stop_, queue_mutex_, condition_, workers_, task,
                   producer, submitted, schedlog>>

Pool(A) == A /\ UNCHANGED <<dbvars, ret, rw_lock, pc, cpc, netvars>>
WorkerStep(w) ==
    \/ Pool(WorkerLock(w)) \/ Pool(WorkerWait(w)) \/ Pool(WorkerCheck(w))
    \/ Pool(WorkerPop(w)) \/ Pool(WorkerRun(w))
DestructorStep ==
    \/ Pool(DestructorLock) \/ Pool(DestructorStop) \/ Pool(DestructorNotify)
    \/ Pool(DestructorJoin)
NextSched ==
    \/ \E w \in Workers : WorkerStep(w)
    \/ \E w \in Workers : Pool(SpuriousWake(w))
    \/ Pool(EnqueueLock) \/ Pool(EnqueueEmplace) \/ Pool(EnqueueNotify)
    \/ DestructorStep
SpecSched == Init /\ [][NextSched]_vars

\* Shutdown with the tasks submitted before it: every enqueue call takes
\* the mutex before the destructor does. A thread that can take a step
\* takes it in the end (a call in progress goes on, a task that runs
\* terminates); nothing makes a caller submit a task, and nothing makes a
\* wake-up without notification happen.
EnqueueBeforeShutdown == destructor = "alive" /\ Pool(EnqueueLock)
NextShutdown ==
    \/ \E w \in Workers : WorkerStep(w)
    \/ \E w \in Workers : Pool(SpuriousWake(w))
    \/ EnqueueBeforeShutdown \/ Pool(EnqueueEmplace) \/ Pool(EnqueueNotify)
    \/ DestructorStep
SpecShutdown ==
    /\ Init /\ [][NextShutdown]_vars
    /\ \A w \in Workers : WF_vars(WorkerStep(w))
    /\ WF_vars(DestructorStep)
    /\ WF_vars(Pool(EnqueueEmplace)) /\ WF_vars(Pool(EnqueueNotify))

\* --- Engine::append with the output stream between the call and the file.
\* std::ofstream::write either hands the bytes to the operating system
\* during the call (direct) or keeps them in the stream buffer; buffered
\* bytes are written when the stream is closed, which is when the local
\* `file` is destroyed, after `file.good()` has been evaluated for the
\* return. A write that fails leaves nothing or a cut frame in the file.
FailedWrite(d, collection, raw_json, partial) ==
    IF partial
    THEN Put(d, get_path(collection),
             Append(FileAt(d, get_path(collection)), TornFrame(raw_json)))
    ELSE d
Engine_append_stream(d, collection, raw_json, is_open, direct, io_ok, partial) ==
    IF ~is_open THEN Result(d, FALSE)
    ELSE IF direct
         THEN IF io_ok THEN Result(Engine_append(d, collection, raw_json), TRUE)
              ELSE Result(FailedWrite(d, collection, raw_json, partial), FALSE)
         ELSE IF io_ok THEN Result(Engine_append(d, collection, raw_json), TRUE)
              ELSE Result(FailedWrite(d, collection, raw_json, partial), TRUE)

EngineAppendStream(collection, raw_json, is_open, direct, io_ok, partial) ==
    /\ Alone
    /\ Len(FileAt(disk, get_path(collection))) < MaxLog
    /\ LET r == Engine_append_stream(disk, collection, raw_json, is_open,
                                     direct, io_ok, partial)
       IN /\ disk' = r.st
          /\ Returned("append_stream",
                      [collection |-> collection, raw_json |-> raw_json,
                       rv |-> r.rv,
                       before |-> Len(FileAt(disk, get_path(collection)))])
    /\ UNCHANGED guarded

NextStream ==
    \/ \E c \in Colls, raw \in RawStrings, is_open, direct, io_ok, partial \in BOOLEAN :
          EngineAppendStream(c, raw, is_open, direct, io_ok, partial)
    \/ \E c \in LogNames : EngineLoadLog(c)
SpecStream == Init /\ [][NextStream]_vars

\* --- one client session of Server::handle_client: each request read from
\* the socket is answered by Handler::process, and the loop is left when
\* the response text holds "status":"goodbye". No document of this
\* specification holds that text, so it is found exactly in the response of
\* status goodbye.
SaysGoodbye(resp) == resp.status = "goodbye"
SessionOpen == ~(ret.op = "handle_client" /\ ret.val.closed)
SessionOpcodes == {"exit", "find", "count", "insert", "delete"}
SessionRequests ==
    {Request(a, (AllMembers \ {"auth"}) \cup {cr[1]}, cr[2], "c", ReqDoc, ReqQuery,
             "f", KeyK, "read_only") : a \in SessionOpcodes, cr \in Credentials}

HandleClient(req) ==
    /\ Alone /\ SessionOpen /\ CanProcess(req)
    /\ \E now \in Clock :
          LET r == Handler_process(Cur, req, now)
              api_key == IF Carries(req, "auth") THEN req.auth ELSE <<>>
          IN /\ Fits(r.st) /\ Commit(r.st)
             /\ Returned("handle_client",
                         [req |-> req, role |-> authenticate(Cur, api_key),
                          resp |-> r.rv,
                          closed |-> SaysGoodbye(r.rv)])
\* the next connection is accepted
Accept ==
    /\ Alone /\ ~SessionOpen
    /\ UNCHANGED dbvars
    /\ Returned("accept", TRUE)

NextSession ==
    \/ \E role \in {"read_write", "read_only"} : CreateUser(KeyK, role)
    \/ \E req \in SessionRequests : HandleClient(req)
    \/ Accept
SpecSession == Init /\ [][NextSession]_vars

\* --- hash_key on its own. `for (char c : key)` reads each byte through
\* plain char, whose signedness is the platform's: signed on the x86-64
\* ABI, unsigned on the ARM64 Linux ABI. Both builds are possible.
CharToULongOn(char_signed, b) ==
    IF char_signed THEN CharToULong(b) ELSE <<b, 0, 0, 0>>
RECURSIVE Djb2On(_, _, _)
Djb2On(char_signed, hash, key) ==
    IF key = <<>> THEN hash
    ELSE Djb2On(char_signed,
                LimbAdd(LimbMul(hash, 33), CharToULongOn(char_signed, Head(key))),
                Tail(key))
hash_key_on(char_signed, key) ==
    ULongToString(Djb2On(char_signed, <<Djb2Init, 0, 0, 0>>, key))

MaxKeyLen == 3
LongKeyLen == 13
KeyBytes == {97, 127, 128, 255}
RECURSIVE KeysUpTo(_)
KeysUpTo(n) ==
    IF n = 0 THEN {<<>>}
    ELSE KeysUpTo(n - 1) \cup {Append(k, b) : k \in KeysUpTo(n - 1), b \in KeyBytes}
\* short keys over ASCII and non-ASCII bytes, and keys long enough for the
\* value to pass 2^64
HashKeys == KeysUpTo(MaxKeyLen) \cup {[i \in 1 .. LongKeyLen |-> b] : b \in KeyBytes}

HashKey(key, char_signed) ==
    /\ Alone
    /\ UNCHANGED dbvars
    /\ Returned("hash_key", [key |-> key, rv |-> hash_key_on(char_signed, key)])
NextHash == \E key \in HashKeys, char_signed \in BOOLEAN : HashKey(key, char_signed)
SpecHash == Init /\ [][NextHash]_vars

\* --- IdGenerator::generate as the text it builds. A 64-bit sample is four
\* limbs of 16 bits, least significant first; the text is a sequence of
\* characters.
HexChars == <<"0", "1", "2", "3", "4", "5", "6", "7", "8", "9",
              "a", "b", "c", "d", "e", "f">>
\* operator<< of an unsigned value under std::hex: the digits of the value,
\* without leading zeros
RECURSIVE HexNat(_)
HexNat(n) == IF n < 16 THEN <<HexChars[n + 1]>>
             ELSE HexNat(n \div 16) \o <<HexChars[(n % 16) + 1]>>
HexLimb4(n) == <<HexChars[(n \div 4096) + 1], HexChars[((n \div 256) % 16) + 1],
                 HexChars[((n \div 16) % 16) + 1], HexChars[(n % 16) + 1]>>
\* the same for a value of several limbs, most significant limb first
RECURSIVE HexLimbs(_)
HexLimbs(ms) ==
    IF Len(ms) = 1 THEN HexNat(ms[1])
    ELSE IF ms[1] = 0 THEN HexLimbs(Tail(ms))
    ELSE HexLimbs(SubSeq(ms, 1, Len(ms) - 1)) \o HexLimb4(ms[Len(ms)])
\* std::setfill('0') with std::setw(w): filled on the left up to w
\* characters, never cut
NoFill(w, digits) == digits
SetW(w, digits) ==
    IF Len(digits) >= w THEN digits
    ELSE [i \in 1 .. (w - Len(digits)) |-> "0"] \o digits

IdGenerator_generate(p1, p2) ==
    SetW(8, HexLimbs(<<p1[4], p1[3]>>)) \o <<"-">>
    \o SetW(4, HexLimbs(<<p1[2]>>)) \o <<"-">>
    \* (p1 & 0x0FFF) | 0x4000
    \o SetW(4, HexLimbs(<<0, 0, 0, (p1[1] % 4096) + 16384>>)) \o <<"-">>
    \* ((p2 >> 48) & 0x3FFF) | 0x8000
    \o SetW(4, HexLimbs(<<0, 0, 0, (p2[4] % 16384) + 32768>>)) \o <<"-">>
    \* p2 & 0xFFFFFFFFFFFF
    \o SetW(12, HexLimbs(<<0, p2[3], p2[2], p2[1]>>))

\* samples with every limb at its ends and at the values where a mask or a
\* leading zero matters
Samples1 == {<<a, b, cd[1], cd[2]>> :
                 a \in {0, 4096, 65535}, b \in {0, 255, 65535},
                 cd \in {<<0, 0>>, <<65535, 0>>, <<1, 65535>>}}
Samples2 == {<<abc[1], abc[2], abc[3], d>> :
                 abc \in {<<0, 0, 0>>, <<2571, 0, 0>>, <<0, 0, 15>>,
                          <<65535, 65535, 65535>>},
                 d \in {0, 16383, 16384, 49152, 65535}}
Generate(p1, p2) ==
    /\ Alone
    /\ UNCHANGED dbvars
    /\ Returned("generate", [rv |-> IdGenerator_generate(p1, p2), p1 |-> p1, p2 |-> p2])
NextUuid == \E p1 \in Samples1, p2 \in Samples2 : Generate(p1, p2)
SpecUuid == Init /\ [][NextUuid]_vars

\* --- frames of every kind in the log of one collection, and the log
\* replayed: two versions of a document, a second document, a tombstone, a
\* document whose _deleted is false, a document whose _id is a number, and a
\* frame that is no JSON
FoldFrames == {[_id |-> JStr("a"), f |-> ValStr], [_id |-> JStr("a"), f |-> ValNum],
               [_id |-> JStr("b"), f |-> ValStr], Tombstone("a"),
               [_id |-> JStr("a"), _deleted |-> [t |-> "b", v |-> "false"]],
               [_id |-> ValNum, f |-> ValStr], Unparsable(<<123>>)}
NextFold ==
    \/ \E raw \in FoldFrames : EngineAppend("c", raw)
    \/ Reopen
SpecFold == Init /\ [][NextFold]_vars

\* --- insert, update and remove statement by statement: each write of the
\* log and each change of the memory of the collection is a step of its own,
\* all of them under the exclusive lock the call takes first
MemoryOf(coll) ==
    <<Get(memory_store, coll, <<>>), Get(id_indexes, coll, <<>>),
      Get(custom_indexes, coll, <<>>)>>
WriteCall(at, op, coll, query, data, ids) ==
    [coll |-> coll, query |-> query, data |-> data, ids |-> ids, op |-> op,
     at |-> at, before |-> MemoryOf(coll), logged |-> FALSE]
Unlock(t) == rw_lock' = [rw_lock EXCEPT !.writer = 0] /\ pc' = [pc EXCEPT ![t] = PcIdle]
Goto(t, at) == pc' = [pc EXCEPT ![t].at = at] /\ UNCHANGED rw_lock
KeepDisk(s) == [s EXCEPT !.disk = disk]

\* insert: validation, get_collection, the _id, the array and the indexes
InsertBegin(t, c, d) ==
    /\ Idle(t) /\ CanAssignId(c, d) /\ Fits(insert(Cur, c, d).st)
    /\ LockUnique(t, WriteCall("insert_memory", "insert", c, EmptyObj, d, <<>>))
InsertMemory(t) ==
    /\ pc[t].at = "insert_memory"
    /\ Commit(KeepDisk(insert(Cur, pc[t].coll, pc[t].data).st))
    /\ Goto(t, "insert_append")
    /\ UNCHANGED <<ret, cpc>> /\ UNCHANGED schedvars
\* insert: storage_.append(coll, raw) and the return
InsertAppend(t) ==
    /\ pc[t].at = "insert_append"
    /\ LET new_item == memory_store[pc[t].coll][Len(memory_store[pc[t].coll])]
       IN Commit([Cur EXCEPT !.disk = Engine_append(@, pc[t].coll, new_item)])
    /\ Returned("insert", TRUE) /\ Unlock(t)
    /\ UNCHANGED cpc /\ UNCHANGED schedvars

\* update: the swap of the array and rebuild_index
UpdateBegin(t, c, q, u) ==
    /\ Idle(t) /\ Has(memory_store, c)
    /\ LockUnique(t, WriteCall("update_swap", "update", c, q, u, <<>>))
UpdateSwap(t) ==
    /\ pc[t].at = "update_swap"
    /\ Commit(KeepDisk(update(Cur, pc[t].coll, pc[t].query, pc[t].data).st))
    /\ Goto(t, "update_compact")
    /\ UNCHANGED <<ret, cpc>> /\ UNCHANGED schedvars
\* update: compact_collection(coll) and the return
UpdateCompact(t) ==
    /\ pc[t].at = "update_compact"
    /\ Commit(compact_collection(Cur, pc[t].coll).st)
    /\ Returned("update", TRUE) /\ Unlock(t)
    /\ UNCHANGED cpc /\ UNCHANGED schedvars

\* remove: the three tiers that fill ids_to_remove
RemoveBegin(t, c, q) ==
    /\ Idle(t) /\ Has(memory_store, c) /\ ids_to_remove(Cur, c, q) # <<>>
    /\ LockUnique(t, WriteCall("remove_tombstone", "remove", c, q, EmptyObj,
                               ids_to_remove(Cur, c, q)))
\* remove: one round of the loop as far as storage_.append of the tombstone
RemoveTombstone(t) ==
    /\ pc[t].at = "remove_tombstone" /\ pc[t].ids # <<>>
    /\ UNCHANGED <<ret, cpc, rw_lock>> /\ UNCHANGED schedvars
    /\ LET uuid == Head(pc[t].ids)
       IN IF Has(id_indexes[pc[t].coll], uuid)
          THEN /\ Fits([Cur EXCEPT !.disk = Engine_append(@, pc[t].coll, Tombstone(uuid))])
               /\ Commit([Cur EXCEPT !.disk = Engine_append(@, pc[t].coll, Tombstone(uuid))])
               /\ pc' = [pc EXCEPT ![t].at = "remove_detach", ![t].logged = TRUE]
          ELSE /\ UNCHANGED dbvars
               /\ pc' = [pc EXCEPT ![t].ids = Tail(@)]
\* remove: the rest of the round, which takes the document out of the
\* indexes and of the array
RemoveDetach(t) ==
    /\ pc[t].at = "remove_detach"
    /\ UNCHANGED <<ret, cpc, rw_lock>> /\ UNCHANGED schedvars
    /\ LET s == KeepDisk(remove_loop(Cur, pc[t].coll, <<Head(pc[t].ids)>>))
       IN /\ Commit(s)
          /\ pc' = [pc EXCEPT ![t].at = "remove_tombstone", ![t].ids = Tail(@),
                              ![t].logged = FALSE,
                              ![t].before = <<Get(s.memory_store, pc[t].coll, <<>>),
                                              Get(s.id_indexes, pc[t].coll, <<>>),
                                              Get(s.custom_indexes, pc[t].coll, <<>>)>>]
RemoveReturn(t) ==
    /\ pc[t].at = "remove_tombstone" /\ pc[t].ids = <<>>
    /\ Returned("remove", TRUE) /\ Unlock(t)
    /\ UNCHANGED <<dbvars, cpc>> /\ UNCHANGED schedvars

OrderDocs == {[f |-> x] : x \in Vals} \cup {[_id |-> JStr("a"), f |-> ValStr]}
OrderQueries == {[f |-> ValStr], EmptyObj}

NextOrder ==
    \/ \E t \in Threads, c \in Colls, d \in OrderDocs : InsertBegin(t, c, d)
    \/ \E t \in Threads : InsertMemory(t)
    \/ \E t \in Threads : InsertAppend(t)
    \/ \E t \in Threads, c \in Colls, q \in OrderQueries, u \in Updates : UpdateBegin(t, c, q, u)
    \/ \E t \in Threads : UpdateSwap(t)
    \/ \E t \in Threads : UpdateCompact(t)
    \/ \E t \in Threads, c \in Colls, q \in OrderQueries : RemoveBegin(t, c, q)
    \/ \E t \in Threads : RemoveTombstone(t)
    \/ \E t \in Threads : RemoveDetach(t)
    \/ \E t \in Threads : RemoveReturn(t)

SpecOrder == Init /\ [][NextOrder]_vars

\* --- compactions that fail at one of their statements, in a process that
\* stays up
NextCompactFail ==
    \/ \E c \in Colls, d \in CompactDocs : Insert(c, d)
    \/ \E c \in Colls : CompactCall(c)
    \/ CompactOpen
    \/ CompactWrite
    \/ CompactClose
    \/ CompactCheck
    \/ CompactRename

SpecCompactFail == Init /\ [][NextCompactFail]_vars

\* --- documents of clients that carry the member the tombstones are told
\* by, written, removed and read back at a restart
ReservedDocs == {[_id |-> JStr("a"), f |-> ValStr],
                 [_id |-> JStr("a"), f |-> ValStr, _deleted |-> JTrue],
                 [_id |-> JStr("b"), _deleted |-> JTrue]}
ReservedQueries == {[_id |-> JStr("a")]}

NextReserved ==
    \/ \E c \in Colls, d \in ReservedDocs : Insert(c, d)
    \/ \E c \in Colls, q \in ReservedQueries, d \in ReservedDocs : Upsert(c, q, d)
    \/ \E c \in Colls, q \in ReservedQueries, u \in Updates : Update(c, q, u)
    \/ \E c \in Colls, q \in ReservedQueries : Remove(c, q)
    \/ Reopen

SpecReserved == Init /\ [][NextReserved]_vars

\* --- index declarations whose write of _indexes may fail: create_index
\* hands on what Engine::compact returned, and a field that is already
\* registered is answered before any write
create_index_io(s, coll, field, wrote) ==
    LET r == create_index(s, coll, field)
    IN IF wrote \/ field \in Get(s.indexed_fields, coll, {}) THEN r
       ELSE Result([r.st EXCEPT !.disk = s.disk], FALSE)

CreateIndexIo(c, f, wrote) ==
    /\ Alone
    /\ LET r == create_index_io(Cur, c, f, wrote)
       IN /\ Commit(r.st)
          /\ ReturnedIo("create_index", r.rv, ~r.rv)

NextIndexIo ==
    \/ \E c \in Colls, d \in IoDocs : Insert(c, d)
    \/ \E c \in Colls, f \in Fields, wrote \in BOOLEAN : CreateIndexIo(c, f, wrote)

SpecIndexIo == Init /\ [][NextIndexIo]_vars

\* --- requests that name their collection in every way a client can: the
\* member left out, not a string, empty, or a string with other characters
\* than letters, digits and the underscore
NamesSent == {"c", "", "a.b"}
NamedDocs == {[_id |-> JStr("a"), f |-> ValStr], [f |-> ValStr]}
NamedRequests ==
    {Request("insert", m, KeyRoot, n, d, ReqQuery, "f", KeyK, "read_only") :
        m \in {AllMembers, AllMembers \ {"collection"}}, n \in NamesSent, d \in NamedDocs}
NamedPayloads ==
    {Payload("json", req, {}) : req \in NamedRequests}
    \cup {Payload("json", req, {"collection"}) :
             req \in {r \in NamedRequests : r.collection = "c" /\ Carries(r, "collection")}}

NextNames ==
    \E p \in NamedPayloads : CanProcess(GuardedReads(p)) /\ ProcessRaw(p)

SpecNames == Init /\ [][NextNames]_vars

\* --- a client that holds a READ_WRITE key and writes to the reserved
\* collection _auth as to any other: the root provisions key k once, every
\* other request is sent under k or under x, a key nobody provisioned
ForgedUser == [_id |-> JStr("z"), role |-> JStr("admin"), key_hash |-> JStr(hash_key(KeyX))]
EscalationRequests ==
    {Request("create_user", AllMembers, KeyRoot, "c", ReqDoc, ReqQuery, "f", KeyK, "read_write")}
    \cup {Request(a, AllMembers, key, n, d, [_id |-> JStr("z")], "f", KeyK, "read_only") :
             a \in {"insert", "delete", "find"}, key \in {KeyK, KeyX}, n \in {"_auth", "c"},
             d \in {ForgedUser}}

\* the bounds on the arrays and on the logs, with room for the document of
\* the root beside the others
FitsBesideRoot(s) == \A n \in CollectionFiles(s.disk) \cup DOMAIN s.memory_store :
                        LogLen(s, n) <= MaxLog + 1 /\ DocCount(s, n) <= MaxDocs + 1

ProcessKeyed(req) ==
    /\ Alone /\ CanProcess(req)
    /\ \E now \in Clock :
          LET r == Handler_process(Cur, req, now)
          IN /\ FitsBesideRoot(r.st) /\ Commit(r.st)
             /\ Returned("process", [req |-> req, resp |-> r.rv])

NextEscalation ==
    \/ \E req \in EscalationRequests : ProcessKeyed(req)
    \/ Reopen

SpecEscalation == Init /\ [][NextEscalation]_vars

\* --- the server: the accept loop that hands every connection to the pool
\* as one task, the sessions the workers run, the clients, and stop(). A
\* connection is numbered like the task that serves it.
poolvars == <<tasks_, stop_, queue_mutex_, condition_, workers_, task, submitted,
              destructor, joined, taken, ran>>
NextSock == submitted + 1
Registered(s) == s \in SeqRange(client_sockets_)
Closed(s) == sockets' = [sockets EXCEPT ![s].closes = @ + 1]

\* Server::run as far as running_ = true
ServerRun ==
    /\ producer = "idle" /\ server_fd_ = "none"
    /\ server_fd_' = "listening" /\ running_' = TRUE
    /\ UNCHANGED <<poolvars, producer, client_sockets_, sockets, stopper>>
\* while (running_)
AcceptLoop ==
    /\ producer = "idle" /\ server_fd_ # "none"
    /\ producer' = IF running_ THEN "accept" ELSE "returned"
    /\ UNCHANGED <<poolvars, netvars>>
\* accept(server_fd_, ...): a client connects, or the listener was closed
\* and the call fails
AcceptReturns ==
    /\ producer = "accept"
    /\ \/ server_fd_ = "listening" /\ NextSock <= MaxTasks /\ producer' = "accepted"
       \/ server_fd_ = "closed" /\ producer' = IF running_ THEN "idle" ELSE "returned"
    /\ UNCHANGED <<poolvars, netvars>>
\* if (!running_) { close(sock); break; } ... add_client(sock)
AcceptCheck ==
    /\ producer = "accepted"
    /\ IF ~running_
       THEN Closed(NextSock) /\ producer' = "returned" /\ UNCHANGED client_sockets_
       ELSE /\ client_sockets_' = Append(client_sockets_, NextSock)
            /\ producer' = "registered" /\ UNCHANGED sockets
    /\ UNCHANGED <<poolvars, running_, server_fd_, stopper>>
\* scheduler_.enqueue(...): the lock of Scheduler::enqueue
ServerEnqueueLock ==
    /\ producer = "registered" /\ queue_mutex_ = Nobody
    /\ queue_mutex_' = Caller /\ producer' = "locked"
    /\ UNCHANGED <<tasks_, stop_, condition_, workers_, task, submitted,
                   destructor, joined, schedlog, netvars>>

\* Server::handle_client, run by worker w for the socket of its task:
\* while (running_)
SessionLoop(w) ==
    /\ workers_[w] = "run"
    /\ At(w, IF running_ THEN "recv" ELSE "cleanup")
    /\ UNCHANGED <<tasks_, stop_, queue_mutex_, condition_, task, callers, schedlog, netvars>>
\* recv(sock, ...) blocks until the client has sent something, has closed
\* its end, or the socket was shut down
SessionRecv(w) ==
    /\ workers_[w] = "recv"
    /\ \/ /\ sockets[task[w]].inbox > 0
          /\ sockets' = [sockets EXCEPT ![task[w]].inbox = 0]
          /\ At(w, "process")
       \/ /\ sockets[task[w]].fin
          /\ UNCHANGED sockets /\ At(w, "cleanup")
    /\ UNCHANGED <<tasks_, stop_, queue_mutex_, condition_, task, callers, schedlog,
                   running_, server_fd_, client_sockets_, stopper>>
\* Handler::process, send, and the test of the response for goodbye
SessionProcess(w) ==
    /\ workers_[w] = "process"
    /\ \E goodbye \in BOOLEAN : At(w, IF goodbye THEN "cleanup" ELSE "run")
    /\ UNCHANGED <<tasks_, stop_, queue_mutex_, condition_, task, callers, schedlog, netvars>>
\* remove_client(sock), and the task returns to the worker loop
SessionCleanup(w) ==
    /\ workers_[w] = "cleanup"
    /\ IF Registered(task[w])
       THEN /\ Closed(task[w])
            /\ client_sockets_' = SelectSeq(client_sockets_, LAMBDA s : s # task[w])
       ELSE UNCHANGED <<sockets, client_sockets_>>
    /\ ran' = [ran EXCEPT ![task[w]] = @ + 1]
    /\ task' = [task EXCEPT ![w] = NoTask] /\ At(w, "top")
    /\ UNCHANGED <<tasks_, stop_, queue_mutex_, condition_, callers, taken,
                   running_, server_fd_, stopper>>

\* the client of a registered connection sends a request, or closes its end
ClientSend(s) ==
    /\ Registered(s) /\ sockets[s].inbox = 0 /\ ~sockets[s].fin
    /\ sockets' = [sockets EXCEPT ![s].inbox = 1]
    /\ UNCHANGED <<poolvars, producer, running_, server_fd_, client_sockets_, stopper>>
ClientClose(s) ==
    /\ Registered(s) /\ ~sockets[s].fin
    /\ sockets' = [sockets EXCEPT ![s].fin = TRUE]
    /\ UNCHANGED <<poolvars, producer, running_, server_fd_, client_sockets_, stopper>>

\* Server::stop: if (!running_) return; running_ = false;
StopFlag ==
    /\ stopper = "idle" /\ running_
    /\ running_' = FALSE /\ stopper' = "flagged"
    /\ UNCHANGED <<poolvars, producer, server_fd_, client_sockets_, sockets>>
\* shutdown and close of server_fd_
StopListener ==
    /\ stopper = "flagged"
    /\ server_fd_' = "closed" /\ stopper' = "listener"
    /\ UNCHANGED <<poolvars, producer, running_, client_sockets_, sockets>>
\* under client_mutex_: shutdown and close of every registered socket,
\* client_sockets_.clear()
StopClients ==
    /\ stopper = "listener"
    /\ sockets' = [s \in 1 .. MaxTasks |->
                     IF Registered(s)
                     THEN [sockets[s] EXCEPT !.closes = @ + 1, !.fin = TRUE]
                     ELSE sockets[s]]
    /\ client_sockets_' = <<>> /\ stopper' = "returned"
    /\ UNCHANGED <<poolvars, producer, running_, server_fd_>>

Serve(A) == A /\ UNCHANGED <<dbvars, ret, rw_lock, pc, cpc>>
AcceptStep ==
    \/ Serve(AcceptLoop) \/ Serve(AcceptCheck) \/ Serve(ServerEnqueueLock)
    \/ Pool(EnqueueEmplace) \/ Pool(EnqueueNotify)
SessionStep(w) ==
    \/ Pool(WorkerLock(w)) \/ Pool(WorkerWait(w)) \/ Pool(WorkerCheck(w))
    \/ Pool(WorkerPop(w))
    \/ Serve(SessionLoop(w)) \/ Serve(SessionRecv(w)) \/ Serve(SessionProcess(w))
    \/ Serve(SessionCleanup(w))
StopStep == Serve(StopListener) \/ Serve(StopClients)

NextServer ==
    \/ Serve(ServerRun)
    \/ AcceptStep
    \/ Serve(AcceptReturns)
    \/ \E w \in Workers : SessionStep(w)
    \/ \E s \in 1 .. MaxTasks : Serve(ClientSend(s))
    \/ \E s \in 1 .. MaxTasks : Serve(ClientClose(s))
    \/ Serve(StopFlag)
    \/ StopStep

\* Every thread that can take a step takes it in the end. Nothing makes a
\* client connect, send or close, and nothing makes anybody call stop().
SpecServer ==
    /\ Init /\ [][NextServer]_vars
    /\ WF_vars(Serve(ServerRun)) /\ WF_vars(AcceptStep)
    /\ \A w \in Workers : WF_vars(SessionStep(w))
    /\ WF_vars(StopStep)

\* ================================================================= claims
CountIn(sq, x) == Cardinality({i \in 1..Len(sq) : sq[i] = x})
SameBag(a, b) == /\ Len(a) = Len(b)
                 /\ \A x \in SeqRange(a) \cup SeqRange(b) : CountIn(a, x) = CountIn(b, x)
LiveDocs(c) == Get(memory_store, c, <<>>)
LiveFile(c) == FileAt(disk, get_path(c))

\* C1: at every quiescent point the in-memory documents of a non-reserved
\* collection are, as a multiset, the documents that replaying its log
\* yields (what a restart on the same directory would load).
CE_C1_ReplayEquivalence ==
    \A c \in Colls :
       LET replayed == TempMap(disk, c)
       IN /\ Len(LiveDocs(c)) = Cardinality(DOMAIN replayed)
          /\ \A k \in DOMAIN replayed : CountIn(LiveDocs(c), replayed[k]) = 1

\* C2: the primary index is a bijection onto the in-memory array: every
\* document of the array is the value of exactly one entry, the key of that
\* entry is the document's _id, and no entry points outside the array.
CE_C2_PrimaryIndexBijection ==
    \A c \in Colls \cap DOMAIN memory_store :
       LET arr == memory_store[c]
           idx == Get(id_indexes, c, <<>>)
       IN /\ \A p \in 1..Len(arr) : Cardinality({k \in DOMAIN idx : idx[k] = p}) = 1
          /\ \A k \in DOMAIN idx :
                /\ idx[k] \in 1..Len(arr)
                /\ cJSON_GetObjectItem(arr[idx[k]], "_id") = JStr(k)

\* stringify(D[F]): defined for strings and numbers only
Stringify(doc, F) ==
    LET val == cJSON_GetObjectItem(doc, F)
    IN IF cJSON_IsString(val) THEN <<TRUE, val.v>>
       ELSE IF cJSON_IsNumber(val) THEN <<TRUE, std_to_string(val)>>
       ELSE <<FALSE, "">>

SecondaryIndexConsistent ==
    \A c \in Colls : \A F \in Get(indexed_fields, c, {}) :
       LET arr == LiveDocs(c)
           fmap == Get(Get(custom_indexes, c, <<>>), F, <<>>)
           keys == DOMAIN fmap \cup {Stringify(arr[p], F)[2] : p \in 1..Len(arr)}
       IN \A V \in keys :
             LET list == Get(fmap, V, <<>>)
             IN /\ \A p \in 1..Len(arr) :
                      CountIn(list, p) = IF Stringify(arr[p], F) = <<TRUE, V>> THEN 1 ELSE 0
                /\ \A i \in 1..Len(list) : list[i] \in 1..Len(arr)

\* C3: in a running instance (no restart involved) create_index, insert,
\* update and remove keep the secondary indexes exact: a document is in
\* index[C][F][V] exactly once if it is live with stringify(D[F]) = V, and
\* not at all otherwise.
CE_C3_SecondaryIndexKept ==
    [][(SecondaryIndexConsistent /\ ~Restart) => SecondaryIndexConsistent']_vars

Tier1Answers(q) == cJSON_IsString(cJSON_GetObjectItem(q, "_id"))
Tier2Answers(c, q) ==
    /\ ~Tier1Answers(q) /\ cJSON_GetArraySize(q) = 1
    /\ Has(indexed_fields, c) /\ OnlyKey(q) \in indexed_fields[c]
    /\ QueryKey(q[OnlyKey(q)]) # ""
FullScan(c, q) == call_find(memory_store[c], q, EmptyObj, 0, 0)

\* C8: a find without sort or projection that the primary-key path answers
\* returns the set of documents the full scan returns for the same query.
CE_C8_Tier1EqualsScan ==
    \A c \in Colls \cap DOMAIN memory_store, q \in Queries, o \in FindOpts :
       (cJSON_GetArraySize(o[1]) = 0 /\ Tier1Answers(q))
          => SeqRange(find(Cur, c, q, EmptyObj, EmptyObj, o[2], o[3]).rv)
                = SeqRange(FullScan(c, q))

\* C9: a find without sort, projection, limit or skip that the secondary
\* index answers returns the multiset of documents the full scan returns.
CE_C9_Tier2EqualsScan ==
    \A c \in Colls \cap DOMAIN memory_store, q \in Queries :
       Tier2Answers(c, q)
          => SameBag(find(Cur, c, q, EmptyObj, EmptyObj, 0, 0).rv, FullScan(c, q))

SchemaRejects(c, d) == Has(schemas, c) /\ ~call_validate(d, schemas[c])

\* C10: when the registered schema rejects the document, insert and upsert
\* return false and change neither memory nor disk, whether or not a
\* document matching the upsert query exists.
CE_C10_RejectedWriteIsNoop ==
    [][\A c \in Colls, d \in InDocs :
          SchemaRejects(c, d)
             => /\ Insert(c, d) => (ret'.val = FALSE /\ UNCHANGED dbvars)
                /\ \A q \in Queries :
                      Upsert(c, q, d) => (ret'.val = FALSE /\ UNCHANGED dbvars)]_vars

\* C4: upsert decides between update and insert on a count that is still
\* right when its mutation runs: no other write takes effect in between.
CE_C4_UpsertAtomic ==
    \A t \in Threads :
       (pc[t].op = "upsert" /\ pc[t].at = "unique")
          => ((count(Cur, pc[t].coll, pc[t].query) > 0) = (pc[t].existing > 0))

\* C5: the structures the RW-lock guards change only in a step of the
\* thread that owns the lock exclusively; a step taken under the shared lock
\* leaves all of them as they were.
CE_C5_WritesUnderExclusiveLock ==
    [][guarded' # guarded => rw_lock.writer # 0]_vars

\* C6: from the call of Engine::compact to its return or to the death of
\* the process, <name>.aev holds the frames it held at the call or exactly
\* the frames of active_docs; when compact returns false it holds the
\* frames it held at the call.
C6_CompactLeavesLiveFileWhole ==
    [][cpc.at # "idle" =>
          LET live == FileAt(disk', get_path(cpc.collection))
          IN /\ live = cpc.before \/ live = Frames(cpc.active_docs)
             /\ (cpc'.at = "idle" /\ ret'.op = "trigger_compaction" /\ ret'.val = FALSE)
                   => live = cpc.before]_vars

\* compact returned false on a log that differs from the live documents
W_C6_FailedCompaction ==
    /\ ret = [val |-> FALSE, op |-> "trigger_compaction"]
    /\ cpc.at = "idle"
    /\ LiveDocs("c") # <<>>
    /\ LiveFile("c") # Frames(LiveDocs("c"))
    /\ Has(disk, temp_path("c"))

\* the RBAC table: role, action
RbacActions == {"find", "count", "insert", "update", "delete", "upsert", "create_user",
                "set_schema", "create_index", "compact"}
RbacTable ==
    ({"ADMIN"} \X RbacActions)
    \cup ({"READ_WRITE"} \X {"find", "count", "insert", "update", "delete", "upsert"})
    \cup ({"READ_ONLY"} \X {"find", "count"})

\* the role a request's credential resolves to in the current state
RoleOf(req) == authenticate(Cur, IF Carries(req, "auth") THEN req.auth ELSE <<>>)

\* C11: a request whose credential resolves to NONE, or whose role the RBAC
\* table does not permit the action, is answered with status error and
\* leaves memory and logs as they were; an insert sent with the root
\* credential that carries a document the schema accepts is executed by
\* Db::insert and answered with status ok.
C11_DeniedRequestsChangeNothing ==
    [][ret'.op = "process" =>
          LET req == ret'.val.req
              resp == ret'.val.resp
              role == RoleOf(req)
          IN /\ (role = "NONE" \/ (req.action # "exit" /\ <<role, req.action>> \notin RbacTable))
                  => (resp.status = "error" /\ UNCHANGED dbvars)
             /\ (Carries(req, "auth") /\ req.auth = KeyRoot /\ req.action = "insert"
                   /\ Carries(req, "data") /\ validate(Cur, req.collection, req.data))
                  => (resp.status = "ok" /\ Cur' = insert(Cur, req.collection, req.data).st)
      ]_vars

\* a READ_ONLY user exists, its insert was refused, and the root's insert is
\* in the store
W_C11_Denied ==
    /\ ret.op = "process"
    /\ ret.val.resp = Forbidden /\ ret.val.req.action = "insert"
    /\ authenticate(Cur, KeyK) = "READ_ONLY"
    /\ Has(memory_store, "c") /\ Len(memory_store["c"]) = 1

\* C12: has_permission agrees with the RBAC table on every role and every
\* action of the table, and permits READ_WRITE, READ_ONLY and NONE nothing
\* outside it.
C12_PermissionTable ==
    ret.op = "has_permission" =>
       /\ ret.val.action \in RbacActions
             => (ret.val.rv = (<<ret.val.role, ret.val.action>> \in RbacTable))
       /\ (ret.val.action \notin RbacActions /\ ret.val.role # "ADMIN") => ~ret.val.rv

W_C12_Refused ==
    /\ ret.op = "has_permission"
    /\ ret.val = [rv |-> FALSE, role |-> "READ_WRITE", action |-> "create_index"]

\* the credentials that the complete frames of _auth hold
StoredCredentials(d) ==
    LET temp_map == TempMap(d, "_auth")
    IN {id \in DOMAIN temp_map : {"key_hash", "role"} \subseteq DOMAIN temp_map[id]}

\* C13: authenticate answers NONE to the empty key and to a key that was
\* never provisioned; right after create_user(key, r) it answers the role
\* parsed from r; and a restart leaves the role of every provisioned key as
\* it was.
CE_C13_AuthenticateFollowsProvisioning ==
    /\ [](ret.op = "authenticate" =>
            (ret.val.key \notin AuthKeysGiven => ret.val.rv = "NONE"))
    /\ [][/\ ret'.op = "create_user"
               => authenticate(Cur', ret'.val.key) = ParseRole(ret'.val.role)
          /\ ret'.op = "Db"
               => \A key \in AuthKeysGiven : authenticate(Cur', key) = authenticate(Cur, key)
         ]_vars

\* C14: a construction ends with a non-empty auth cache; when the complete
\* frames of _auth hold no credential it appends one frame to _auth, the
\* user of key "root" and role "admin", and root authenticates as ADMIN;
\* when they hold a credential it leaves _auth as it found it.
C14_RootBootstrap ==
    /\ [](ret.op = "Db" => auth_cache # <<>>)
    /\ [][ret'.op = "Db" =>
            LET before == FileAt(disk, get_path("_auth"))
                after == FileAt(disk', get_path("_auth"))
            IN IF StoredCredentials(disk) = {}
               THEN /\ Len(after) = Len(before) + 1
                    /\ SubSeq(after, 1, Len(before)) = before
                    /\ after[Len(after)].complete
                    /\ after[Len(after)].payload.key_hash = JStr(hash_key(KeyRoot))
                    /\ after[Len(after)].payload.role = JStr("admin")
                    /\ authenticate(Cur', KeyRoot) = "ADMIN"
               ELSE after = before
         ]_vars

\* a restart found _auth without a credential and provisioned root again
W_C14_RootAgain ==
    /\ ret.op = "Db"
    /\ Len(FileAt(disk, get_path("_auth"))) = 3
    /\ Len(memory_store["_auth"]) = 1
    /\ authenticate(Cur, KeyRoot) = "ADMIN"

InMemory(s) == [memory_store |-> s.memory_store, id_indexes |-> s.id_indexes,
                schemas |-> s.schemas, custom_indexes |-> s.custom_indexes,
                indexed_fields |-> s.indexed_fields, auth_cache |-> s.auth_cache]
TombstoneIds == {"a", "z"} \cup UuidPool
WithTombstone(d, name, uuid) == Engine_append(d, name, Tombstone(uuid))

\* C16: for every log that is read through the merge and tombstone logic and
\* every _id that is not live at the end of it, the directory with one more
\* tombstone frame for that _id at the end of the log recovers to the same
\* documents, the same primary and secondary indexes and the same rest of
\* the memory as the directory without it, whatever the order of the
\* listing and of the iteration.
C16_TombstoneIdempotent ==
    LET listings == list_collections(disk)
        iterations == IterationOrders(disk)
    IN /\ \A name \in DataNames(disk) :
             \A uuid \in TombstoneIds \ DOMAIN TempMap(disk, name) :
                /\ list_collections(WithTombstone(disk, name, uuid)) = listings
                /\ IterationOrders(WithTombstone(disk, name, uuid)) = iterations
       /\ \A names \in listings, orders \in iterations, now \in Clock :
             LET recovered == InMemory(Db_Db(disk, names, orders, now))
             IN \A name \in DataNames(disk) :
                   \A uuid \in TombstoneIds \ DOMAIN TempMap(disk, name) :
                      InMemory(Db_Db(WithTombstone(disk, name, uuid), names, orders, now))
                         = recovered

\* the log of c holds a tombstone of "a" after its document and a live
\* document beside it, and f is an indexed field of c
W_C16_DeadAndLive ==
    /\ Len(LiveFile("c")) = 3
    /\ \E i \in 1..2 : /\ LiveFile("c")[i].payload = [_id |-> JStr("a"), f |-> ValStr]
                        /\ LiveFile("c")[i + 1].payload = Tombstone("a")
    /\ "a" \notin DOMAIN TempMap(disk, "c")
    /\ DOMAIN TempMap(disk, "c") # {}
    /\ Has(indexed_fields, "c") /\ "f" \in indexed_fields["c"]

\* the documents of every collection, whatever their order in the array
DocumentsOf(store) ==
    [n \in DOMAIN store |-> [docs |-> SeqRange(store[n]), count |-> Len(store[n])]]

\* C17: a construction that follows a construction with no operation in
\* between leaves every log as it found it and yields the same documents in
\* every collection, the same schema registry, the same registered index
\* fields and the same auth cache. (The secondary indexes are a function of
\* these and of the order of the directory listing, which the two
\* constructions share.)
CE_C17_RecoveryIdempotent ==
    [][(ret.op = "Db" /\ ret'.op = "Db") =>
          /\ disk' = disk
          /\ DocumentsOf(memory_store') = DocumentsOf(memory_store)
          /\ schemas' = schemas
          /\ indexed_fields' = indexed_fields
          /\ auth_cache' = auth_cache]_vars

\* the secondary indexes without the empty maps that a lookup leaves behind
NonEmptyIndexes(ci) ==
    LET cs == {c \in DOMAIN ci : DOMAIN ci[c] # {}}
    IN IF cs = {} THEN <<>> ELSE [c \in cs |-> ci[c]]
\* the pointers that the secondary indexes of a collection hold
IndexedPointers(s, coll) ==
    LET cmap == Get(s.custom_indexes, coll, <<>>)
    IN UNION {UNION {SeqRange(cmap[f][k]) : k \in DOMAIN cmap[f]} : f \in DOMAIN cmap}
\* the frames that a call added at the end of the log of a collection
Appended(before, after, coll) ==
    SubSeq(FileAt(after.disk, get_path(coll)),
           Len(FileAt(before.disk, get_path(coll))) + 1,
           Len(FileAt(after.disk, get_path(coll))))
RemoveContract(before, after, coll, query, rv) ==
    LET targets == IF Has(before.memory_store, coll)
                   THEN SeqRange(ids_to_remove(before, coll, query)) ELSE {}
        added == Appended(before, after, coll)
    IN IF targets = {}
       THEN /\ ~rv
            /\ after.memory_store = before.memory_store
            /\ after.id_indexes = before.id_indexes
            /\ NonEmptyIndexes(after.custom_indexes) = NonEmptyIndexes(before.custom_indexes)
            /\ after.disk = before.disk
       ELSE /\ rv
            /\ Len(added) = Cardinality(targets)
            /\ \A uuid \in targets : \E i \in 1..Len(added) : added[i] = Frame(Tombstone(uuid))
            /\ \A i \in 1..Len(after.memory_store[coll]) :
                  after.memory_store[coll][i]["_id"].v \notin targets
            /\ targets \cap DOMAIN after.id_indexes[coll] = {}
            /\ \A p \in IndexedPointers(after, coll) :
                  /\ p \in 1..Len(after.memory_store[coll])
                  /\ after.memory_store[coll][p]["_id"].v \notin targets

\* C18: a remove whose tiers identify no live document returns false and
\* leaves the memory and the log as they were; any other remove returns
\* true, adds exactly one tombstone frame per target id at the end of the
\* log, and leaves no target document in the array, in the primary index
\* or in a list of a secondary index.
CE_C18_RemoveContract ==
    [][\A c \in Colls, q \in Queries :
          LET r == remove(Cur, c, q)
          IN (ret'.op = "remove" /\ ret'.val = r.rv /\ Cur' = r.st)
                => RemoveContract(Cur, Cur', c, q, r.rv)]_vars

UpdateResult(before, after, coll, query, data) ==
    LET new_collection == call_update(before.memory_store[coll], query, data)
        rebuilt == rebuild_index([before EXCEPT !.memory_store[coll] = new_collection],
                                 coll, new_collection)
    IN /\ after.memory_store[coll] = new_collection
       /\ after.id_indexes[coll] = rebuilt.id_indexes[coll]
       /\ after.custom_indexes[coll] = rebuilt.custom_indexes[coll]
       /\ FileAt(after.disk, get_path(coll)) = Frames(new_collection)
UpdateReplays(after, coll) ==
    LET replayed == TempMap(after.disk, coll)
        docs == after.memory_store[coll]
    IN /\ Len(docs) = Cardinality(DOMAIN replayed)
       /\ \A k \in DOMAIN replayed : CountIn(docs, replayed[k]) = 1

\* C19: an update on a collection that exists in memory returns with the
\* array of the predicate engine in memory, the primary and the secondary
\* indexes rebuilt from that array, and a log of exactly one frame per
\* in-memory document whose replay yields the in-memory documents; an
\* update on a collection that is not in memory returns false and changes
\* nothing.
CE_C19_UpdateContract ==
    [][\A c \in Colls, q \in Queries, u \in Updates :
          LET r == update(Cur, c, q, u)
          IN (ret'.op = "update" /\ ret'.val = r.rv /\ Cur' = r.st)
                => IF Has(memory_store, c)
                   THEN /\ UpdateResult(Cur, Cur', c, q, u)
                        /\ UpdateReplays(Cur', c)
                   ELSE ~r.rv /\ UNCHANGED dbvars]_vars

CE_C21_SchemaSurvivesRestart ==
    [][(ret'.op = "Db")
          => \A c \in DOMAIN schemas :
                /\ Has(schemas', c) /\ schemas'[c] = schemas[c]
                /\ \A d \in SchemaDocs : validate(Cur', c, d) = validate(Cur, c, d)]_vars

\* C22: insert, update and remove return true only when every log write
\* they issued went through, the log of the collection then replaying to
\* the documents in memory; a call one of whose log writes failed returns
\* false.
CE_C22_TrueMeansCommitted ==
    (ret.op \in {"insert", "update", "remove"} /\ DOMAIN ret.val = {"rv", "failed"})
       => /\ ret.val.failed => ~ret.val.rv
          /\ ret.val.rv => \A c \in Colls : Has(memory_store, c) => UpdateReplays(Cur, c)

\* C23: whatever the payload, process returns a response whose status is
\* ok, error or goodbye, without an exception leaving it and without the
\* process dying; an empty payload and one that does not parse are answered
\* with status error and leave the database as it was.
CE_C23_ProcessAnswersEveryPayload ==
    /\ [](ret.op = "process_raw" => ret.val.resp.status \in {"ok", "error", "goodbye"})
    /\ [][(ret'.op = "process_raw" /\ ret'.val.payload.kind \in {"empty", "malformed"})
             => ret'.val.resp.status = "error" /\ UNCHANGED dbvars]_vars

\* C24: the workers pop the tasks in the order enqueue put them into the
\* queue, every popped task is popped by one worker only, and a task is run
\* once, by the worker that popped it.
Popped(t) == {i \in 1 .. Len(taken) : taken[i] = t}
C24_FifoExactlyOnce ==
    /\ \A i \in 1 .. Len(taken) : taken[i] = i
    /\ \A t \in 1 .. submitted :
          /\ Cardinality(Popped(t)) <= 1
          /\ ran[t] <= Cardinality(Popped(t))
          /\ (Popped(t) # {} /\ \A w \in Workers : task[w] # t) => ran[t] = 1
W_C24_TwoWorkersShareTheQueue ==
    /\ ran[2] = 1 /\ ran[1] = 0
    /\ \E w1, w2 \in Workers :
          /\ workers_[w1] = "run" /\ task[w1] = 1
          /\ workers_[w2] = "run" /\ task[w2] = 3

\* C25: once the destructor has begun, it returns in the end, with the
\* queue empty and each worker gone; and when each worker is gone, the tasks
\* that were in the queue have all been run.
AllExited == \A w \in Workers : workers_[w] = "exited"
CE_C26_NoEnqueueAfterStop ==
    /\ [][stop_ => Len(tasks_') <= Len(tasks_)]_vars
    /\ [](AllExited => tasks_ = <<>>)

\* C27: when append has returned true, the file of the collection is one
\* frame longer than before the call and ends with the whole frame of the
\* string that was appended.
CE_C27_TrueMeansFlushed ==
    (ret.op = "append_stream" /\ ret.val.rv)
       => LET file == FileAt(disk, get_path(ret.val.collection))
          IN /\ Len(file) = ret.val.before + 1
             /\ file[Len(file)] = Frame(ret.val.raw_json)

\* C28: a request of action exit whose credential authenticates to
\* READ_ONLY, READ_WRITE or ADMIN is answered with status goodbye, and the
\* session loop is left.
CE_C28_ExitSaysGoodbye ==
    (ret.op = "handle_client" /\ ret.val.req.action = "exit" /\ ret.val.role # "NONE")
       => ret.val.resp.status = "goodbye" /\ ret.val.closed

\* C29: hash_key of a key is the decimal text of the value that starts at
\* 5381 and becomes 33 * hash + c modulo 2^64 for each byte c of the key,
\* c being the byte's value 0..255.
RECURSIVE Djb2Unsigned(_, _)
Djb2Unsigned(hash, key) ==
    IF key = <<>> THEN hash
    ELSE Djb2Unsigned(LimbAdd(LimbMul(hash, 33), <<Head(key), 0, 0, 0>>), Tail(key))
CE_C29_HashIsDjb2OfBytes ==
    ret.op = "hash_key"
       => ret.val.rv = ULongToString(Djb2Unsigned(<<5381, 0, 0, 0>>, ret.val.key))

\* C30: the identifier returned by generate has 36 characters: hyphens at
\* positions 9, 14, 19 and 24, lowercase hexadecimal digits elsewhere, the
\* digit 4 at position 15 and one of 8, 9, a, b at position 20.
C30_UuidFormat ==
    ret.op = "generate"
       => LET id == ret.val.rv
          IN /\ Len(id) = 36
             /\ \A i \in 1 .. 36 :
                   IF i \in {9, 14, 19, 24} THEN id[i] = "-"
                   ELSE \E n \in 1 .. 16 : id[i] = HexChars[n]
             /\ id[15] = "4"
             /\ id[20] \in {"8", "9", "a", "b"}
W_C30_LeadingZerosAndMaskedBits ==
    /\ ret.op = "generate"
    /\ ret.val.p1[4] = 0 /\ ret.val.p1[3] = 0 /\ ret.val.p1[1] = 65535
    /\ ret.val.p2[4] = 65535 /\ ret.val.p2[3] = 0

\* C31: right after recovery, for each registered field F of each
\* collection C, every live document whose F is a string or a number is in
\* the secondary index of (C, F) under its key, and the find on that one
\* key returns it.
CE_C31_IndexesLoadedBeforeRebuild ==
    ret.op = "Db"
       => \A c \in Colls : \A F \in Get(indexed_fields, c, {}) :
             LET arr == LiveDocs(c)
                 fmap == Get(Get(custom_indexes, c, <<>>), F, <<>>)
             IN \A p \in 1 .. Len(arr) :
                   Stringify(arr[p], F)[1]
                      => /\ p \in SeqRange(Get(fmap, Stringify(arr[p], F)[2], <<>>))
                         /\ arr[p] \in SeqRange(find(Cur, c, [x \in {F} |-> arr[p][F]],
                                                     EmptyObj, EmptyObj, 0, 0).rv)

\* C32: after recovery the documents of a collection are, for each _id, the
\* last frame of the log that parses and has that string _id, unless that
\* frame is a tombstone; frames that do not parse or have no string _id
\* count for nothing and do not end the replay.
ValidFrame(raw) ==
    cJSON_Parse(raw) # NULL /\ cJSON_IsString(cJSON_GetObjectItem(cJSON_Parse(raw), "_id"))
LastValid(logs, id) ==
    LET is == {i \in 1 .. Len(logs) : ValidFrame(logs[i]) /\ logs[i]["_id"].v = id}
    IN IF is = {} THEN 0 ELSE CHOOSE i \in is : \A j \in is : j <= i
LiveAtEnd(logs) ==
    {id \in {"a", "b"} :
        /\ LastValid(logs, id) # 0
        /\ ~cJSON_IsTrue(cJSON_GetObjectItem(logs[LastValid(logs, id)], "_deleted"))}
C32_RecoveryIsFold ==
    ret.op = "Db"
       => LET logs == load_log(disk, "c")
          IN /\ SeqRange(LiveDocs("c")) = {logs[LastValid(logs, id)] : id \in LiveAtEnd(logs)}
             /\ Len(LiveDocs("c")) = Cardinality(LiveAtEnd(logs))
W_C32_ReplayGoesOnAfterBadFrame ==
    /\ ret.op = "Db"
    /\ load_log(disk, "c") = <<[_id |-> JStr("a"), f |-> ValStr], Unparsable(<<123>>),
                               [_id |-> JStr("b"), f |-> ValStr]>>
    /\ Len(LiveDocs("c")) = 2

\* C33: in insert, update and remove the log write for a document is made
\* before the memory of the collection (its array, its primary index, its
\* secondary indexes) changes for that document: while a call is in
\* progress, memory differs from what it was when the call (or the round
\* of the loop of remove) began only if a log write has been attempted
WriteSteps == {"insert_memory", "insert_append", "update_swap", "update_compact",
               "remove_tombstone", "remove_detach"}
CE_C33_LogBeforeMemory ==
    \A t \in Threads :
       pc[t].at \in WriteSteps
          => MemoryOf(pc[t].coll) = pc[t].before \/ pc[t].logged

\* C34: when Engine::compact has returned false, at whichever statement it
\* gave up, the directory holds no <name>.aev.tmp file
CE_C34_FalseLeavesNoTemp ==
    (cpc.at = "idle" /\ ret = [val |-> FALSE, op |-> "trigger_compaction"])
       => \A c \in Colls : ~Has(disk, temp_path(c))

\* C35: no document in memory has a member _deleted, and every frame of a
\* collection log that has one is a tombstone as remove writes it (the _id
\* of a document and _deleted true, nothing else)
CE_C35_DeletedIsReserved ==
    \A c \in Colls :
       /\ \A p \in 1 .. Len(LiveDocs(c)) : ~cJSON_HasObjectItem(LiveDocs(c)[p], "_deleted")
       /\ \A raw \in SeqRange(load_log(disk, c)) :
             cJSON_HasObjectItem(raw, "_deleted") => DOMAIN raw = {"_id", "_deleted"}

\* C35, last part: a document that insert accepted is in memory after the
\* next restart unless a remove took it out
ClientDocReplayedAsTombstone ==
    /\ ret.op = "Db"
    /\ load_log(disk, "c") = <<[_id |-> JStr("a"), f |-> ValStr],
                               [_id |-> JStr("a"), f |-> ValStr, _deleted |-> JTrue]>>
    /\ LiveDocs("c") = <<>>

\* C36: when create_index has returned true, the log of _indexes is one
\* frame, and that frame lists exactly the (collection, field) pairs that
\* are registered in memory
CE_C36_TrueMeansIndexesLogged ==
    (ret.op = "create_index" /\ ret.val.rv)
       => load_log(disk, "_indexes") = <<IndexSnapshot(indexed_fields)>>

\* C37: every collection in memory and every collection file on disk has a
\* name that is not empty and is made of letters, digits and underscores
Spelling(n) ==
    CASE n = "" -> <<>>
      [] n = "c" -> <<"c">>
      [] n = "a.b" -> <<"a", ".", "b">>
      [] n = "_auth" -> <<"_", "a", "u", "t", "h">>
      [] n = "_schemas" -> <<"_", "s", "c", "h", "e", "m", "a", "s">>
      [] n = "_indexes" -> <<"_", "i", "n", "d", "e", "x", "e", "s">>
NameChars == {"_", "a", "b", "c", "d", "e", "h", "i", "m", "n", "s", "t", "u", "x"}
ValidName(n) ==
    Spelling(n) # <<>> /\ \A i \in 1 .. Len(Spelling(n)) : Spelling(n)[i] \in NameChars
CE_C37_CollectionNamesAreValid ==
    \A n \in DOMAIN memory_store \cup CollectionFiles(disk) : ValidName(n)

\* C38: the auth cache holds no credential but those the root bootstrap
\* and the create_user of an ADMIN put there: here the root key as ADMIN and
\* key k as READ_WRITE, whatever the holders of k and x send and however
\* often the process is started again
ProvisionedCredentials ==
    {<<hash_key(KeyRoot), "ADMIN">>, <<hash_key(KeyK), "READ_WRITE">>}
CE_C38_OnlyAdminAddsCredentials ==
    \A h \in DOMAIN auth_cache : <<h, auth_cache[h]>> \in ProvisionedCredentials

\* C39: a remove that returned true leaves in the array of the collection
\* exactly the documents that were there before the call and do not match
\* the query, in their order
RECURSIVE Unmatched(_, _)
Unmatched(arr, query) ==
    IF arr = <<>> THEN <<>>
    ELSE (IF Matches(Head(arr), query) THEN <<>> ELSE <<Head(arr)>>)
         \o Unmatched(Tail(arr), query)
CE_C39_RemoveTakesExactlyTheMatches ==
    [][\A c \in Colls, q \in Queries :
          (/\ ret' = [val |-> TRUE, op |-> "remove"]
           /\ Has(memory_store, c)
           /\ Cur' = remove(Cur, c, q).st /\ remove(Cur, c, q).rv)
             => memory_store'[c] = Unmatched(memory_store[c], q)]_vars

\* C40: every connection the accept loop registered while the server runs
\* is taken out of the queue by a worker in the end
Picked(s) == \E i \in 1 .. Len(taken) : taken[i] = s
CE_C40_EveryConnectionIsServed ==
    \A s \in 1 .. MaxTasks : (Registered(s) /\ running_) ~> Picked(s)

\* C40, second part: no socket is closed twice, and once stop() has
\* returned every accepted socket is closed and every session has ended
NeverClosedTwice == \A s \in 1 .. MaxTasks : sockets[s].closes <= 1
InSession(w) == workers_[w] \in {"run", "recv", "process", "cleanup"}
StopClosesEverySession ==
    (stopper = "returned")
       ~> (/\ \A s \in 1 .. MaxTasks : Picked(s) => sockets[s].closes = 1
           /\ \A w \in Workers : ~InSession(w)
           /\ client_sockets_ = <<>>)

====
